---- MODULE Spec2Model ----
(***************************************************************************)
(* A model of the dither library: the Ditherer (palette, linear palette,   *)
(* algorithm selectors), the closest-colour lookup, the alpha helpers, the *)
(* two drivers (pixel mapper and error diffusion), and the entry points    *)
(* Dither, DitherCopy, DitherPaletted, Draw, Quantize, GetPalette and      *)
(* GetColorModel.                                                          *)
(*                                                                         *)
(* Colours are records [t, v]: t is the Go colour type ("RGBA", "NRGBA",   *)
(* "RGBA64") and v the stored channels <<R, G, B, A>>.  Images are records  *)
(* [id, kind, rect, pix, pal]: id is the identity of the Go object, kind   *)
(* the container type, rect = <<x0, y0, x1, y1>> the bounds, pix the       *)
(* stored pixel of every point of rect (its channels, or <<index>> in a    *)
(* paletted image), pal the palette of a paletted image.  Integers of the  *)
(* checker stop at 2^31 - 1, so the uint32 and uint64 arithmetic of the    *)
(* source is carried out on 16-bit limbs.                                  *)
(***************************************************************************)
EXTENDS Integers, Sequences, FiniteSets, TLC

VARIABLES palette, linearPalette, Matrix, Mapper, Special, Serpentine, SingleThreaded, call

vars == <<palette, linearPalette, Matrix, Mapper, Special, Serpentine, SingleThreaded, call>>

-----------------------------------------------------------------------------
(* Bounds of the model.                                                    *)

\* widest and tallest image handed to the library
MaxW == 2
MaxH == 2

-----------------------------------------------------------------------------
(* Fixed-width arithmetic.                                                 *)

\* a*b as the uint32 <<hi, lo>> (16-bit limbs), for a, b < 2^16
Mul16(a, b) ==
    LET t1 == (a \div 256) * b
        t0 == (a % 256) * b
        low == (t1 % 256) * 256 + t0
    IN  <<(t1 \div 256) + (low \div 65536), low % 65536>>

\* uint32 subtraction with wrap-around, on limbs
Sub32(a, b) ==
    LET lo == a[2] - b[2]
        borrow == IF lo < 0 THEN 1 ELSE 0
    IN  <<(a[1] - b[1] - borrow) % 65536, lo % 65536>>

\* uint32 multiplication, keeping the low 32 bits
Mul32(a, b) ==
    LET ll == Mul16(a[2], b[2])
        hl == Mul16(a[1], b[2])
        lh == Mul16(a[2], b[1])
    IN  <<(ll[1] + hl[2] + lh[2]) % 65536, ll[2]>>

\* uint32 >> 2; the result is below 2^30 and is returned as a plain integer
Shr2(a) == a[1] * 16384 + (a[2] \div 4)

\* a plain integer below 2^31 as a uint32 on limbs
U32(n) == <<n \div 65536, n % 65536>>

\* a < b on uint32 limbs
Less32(a, b) == a[1] < b[1] \/ (a[1] = b[1] /\ a[2] < b[2])

MaxUint32 == <<65535, 65535>>

\* floor(a*b/c) for a, b < 2^16 and 0 < c < 2^16: the source computes it in
\* uint32, where a*b cannot overflow
MulDiv(a, b, c) ==
    LET X == a * (b \div 256)
        Y == a * (b % 256)
    IN  (X \div c) * 256 + (((X % c) * 256 + Y) \div c)

\* floor(k*s/m) for s < 2^30, k < 2^11 and m < 2^13: the source computes it
\* in uint64, where k*s cannot overflow
ScaleDiv(k, s, m) == k * (s \div m) + ((k * (s % m)) \div m)

-----------------------------------------------------------------------------
(* Colour-space transform.                                                 *)

\* linearize255to65535(i) for every 8-bit i, as computed by
\* RoundToEven(linearize1(i/255) * 65535)
Lin8Table == <<
    0, 20, 40, 60, 80, 99, 119, 139, 159, 179, 199, 219, 241, 264, 288, 313,
    340, 367, 396, 427, 458, 491, 526, 562, 599, 637, 677, 718, 761, 805, 851, 898,
    947, 997, 1048, 1101, 1156, 1212, 1270, 1330, 1391, 1453, 1517, 1583, 1651, 1720, 1790, 1863,
    1937, 2013, 2090, 2170, 2250, 2333, 2418, 2504, 2592, 2681, 2773, 2866, 2961, 3058, 3157, 3258,
    3360, 3464, 3570, 3678, 3788, 3900, 4014, 4129, 4247, 4366, 4488, 4611, 4736, 4864, 4993, 5124,
    5257, 5392, 5530, 5669, 5810, 5953, 6099, 6246, 6395, 6547, 6700, 6856, 7014, 7174, 7335, 7500,
    7666, 7834, 8004, 8177, 8352, 8528, 8708, 8889, 9072, 9258, 9445, 9635, 9828, 10022, 10219, 10417,
    10619, 10822, 11028, 11235, 11446, 11658, 11873, 12090, 12309, 12530, 12754, 12980, 13209, 13440, 13673, 13909,
    14146, 14387, 14629, 14874, 15122, 15371, 15623, 15878, 16135, 16394, 16656, 16920, 17187, 17456, 17727, 18001,
    18277, 18556, 18837, 19121, 19407, 19696, 19987, 20281, 20577, 20876, 21177, 21481, 21787, 22096, 22407, 22721,
    23038, 23357, 23678, 24002, 24329, 24658, 24990, 25325, 25662, 26001, 26344, 26688, 27036, 27386, 27739, 28094,
    28452, 28813, 29176, 29542, 29911, 30282, 30656, 31033, 31412, 31794, 32179, 32567, 32957, 33350, 33745, 34143,
    34544, 34948, 35355, 35764, 36176, 36591, 37008, 37429, 37852, 38278, 38706, 39138, 39572, 40009, 40449, 40891,
    41337, 41785, 42236, 42690, 43147, 43606, 44069, 44534, 45002, 45473, 45947, 46423, 46903, 47385, 47871, 48359,
    48850, 49344, 49841, 50341, 50844, 51349, 51858, 52369, 52884, 53401, 53921, 54445, 54971, 55500, 56032, 56567,
    57105, 57646, 58190, 58737, 59287, 59840, 60396, 60955, 61517, 62082, 62650, 63221, 63795, 64372, 64952, 65535
>>

linearize255to65535(i) == Lin8Table[i + 1]

\* linearize65535 on the 16-bit values the model feeds it: i/65535 = k/255
\* for i = 257*k, other values are tabulated from the same formula
linearize65535(i) ==
    IF i % 257 = 0 THEN linearize255to65535(i \div 257)
    ELSE CASE i = 13 -> 1
           [] i = 4660 -> 400
           [] i = 25500 -> 8215
           [] i = 32767 -> 14027
           [] i = 33023 -> 14265
           [] i = 51200 -> 37522
           [] i = 51255 -> 37613
           [] i = 51456 -> 37944

\* c.RGBA(): the alpha-premultiplied 16-bit channels of a colour
ColorRGBA(c) ==
    CASE c.t = "RGBA" -> [i \in 1..4 |-> c.v[i] * 257]
      [] c.t = "RGBA64" -> c.v
      [] c.t = "NRGBA" ->
           [i \in 1..4 |-> IF i = 4 THEN c.v[4] * 257
                           ELSE MulDiv(c.v[i] * 257, c.v[4] * 257, 65535)]
      [] c.t = "NRGBA64" ->
           [i \in 1..4 |-> IF i = 4 THEN c.v[4] ELSE MulDiv(c.v[i], c.v[4], 65535)]

\* the straight-alpha 16-bit channels of the premultiplied channels p
Unpremultiplied(p) ==
    IF p[4] = 65535 THEN p
    ELSE IF p[4] = 0 THEN <<0, 0, 0, 0>>
    ELSE [i \in 1..4 |-> IF i = 4 THEN p[4] ELSE MulDiv(p[i], 65535, p[4])]

\* color.NRGBA64Model.Convert(c): the straight-alpha 16-bit colour
NRGBA64Convert(c) == Unpremultiplied(ColorRGBA(c))

\* the 8-bit types take linearize255to65535, the 16-bit types linearize65535
toLinearRGB(c) ==
    [i \in 1..3 |-> IF c.t \in {"NRGBA", "RGBA"} THEN linearize255to65535(c.v[i])
                    ELSE linearize65535(c.v[i])]

-----------------------------------------------------------------------------
(* Palette and closest colour.                                             *)

RGBA64(v) == [t |-> "RGBA64", v |-> v]

copyPalette(p) == [i \in 1..Len(p) |-> RGBA64(ColorRGBA(p[i]))]

\* the linear form NewDitherer computes from d.palette
LinearOf(p) == [i \in 1..Len(p) |-> toLinearRGB(p[i])]

\* faulty variant: the difference is taken in 16 bits
sqDiff_narrow(v1, v2) ==
    LET d == <<0, (v1 - v2) % 65536>>
    IN  Shr2(Mul32(d, d))

sqDiff(v1, v2) ==
    LET d == Sub32(U32(v1), U32(v2))
    IN  Shr2(Mul32(d, d))

\* the weighted sum of closestColor, a uint64
ccSum(q, c) ==
    ScaleDiv(1063, sqDiff(q[1], c[1]), 5000)
    + ScaleDiv(447, sqDiff(q[2], c[2]), 625)
    + ScaleDiv(361, sqDiff(q[3], c[3]), 5000)

\* the distance of closestColor, a uint32
ccDist(q, c) == U32(ccSum(q, c))

RECURSIVE ccLoop(_, _, _, _, _)

\* the body of the loop for entry i, at distance dist
ccStep(lp, q, i, color, best, dist) ==
    IF Less32(dist, best)
    THEN IF dist = <<0, 0>> THEN i
         ELSE ccLoop(lp, q, i + 1, i, dist)
    ELSE ccLoop(lp, q, i + 1, color, best)

ccLoop(lp, q, i, color, best) ==
    IF i >= Len(lp) THEN color
    ELSE ccStep(lp, q, i, color, best, ccDist(q, lp[i + 1]))

\* faulty variant: the comparison of the loop is <= and the early return is gone, so
\* that among equally near entries the last one wins
RECURSIVE ccLoopLast(_, _, _, _, _)

ccStepLast(lp, q, i, color, best, dist) ==
    IF ~Less32(best, dist)
    THEN ccLoopLast(lp, q, i + 1, i, dist)
    ELSE ccLoopLast(lp, q, i + 1, color, best)

ccLoopLast(lp, q, i, color, best) ==
    IF i >= Len(lp) THEN color
    ELSE ccStepLast(lp, q, i, color, best, ccDist(q, lp[i + 1]))

closestColor_lastNearest(lp, q) == ccLoopLast(lp, q, 0, 0, MaxUint32)

\* 0-based index, as in the source
closestColor(lp, q) == ccLoop(lp, q, 0, 0, MaxUint32)


\* samePalette: the map of counts of the source, over typed colour values
\* (two interface values are the same key when type and channels agree)
RECURSIVE spCount(_, _, _)
spCount(p1, i, diff) ==
    IF i > Len(p1) THEN diff
    ELSE LET x == p1[i]
             n == IF x \in DOMAIN diff THEN diff[x] ELSE 0
         IN  spCount(p1, i + 1, [k \in (DOMAIN diff) \cup {x} |-> IF k = x THEN n + 1 ELSE diff[k]])

RECURSIVE spMatch(_, _, _)
spMatch(p2, i, diff) ==
    IF i > Len(p2) THEN DOMAIN diff = {}
    ELSE LET y == p2[i]
         IN  IF y \notin DOMAIN diff THEN FALSE
             ELSE IF diff[y] - 1 = 0
                  THEN spMatch(p2, i + 1, [k \in (DOMAIN diff) \ {y} |-> diff[k]])
                  ELSE spMatch(p2, i + 1, [diff EXCEPT ![y] = diff[y] - 1])

samePalette(p1, p2) ==
    IF Len(p1) # Len(p2) THEN FALSE
    ELSE spMatch(p2, 1, spCount(p1, 1, <<>>))

-----------------------------------------------------------------------------
(* Alpha helpers.                                                          *)

\* <<r, g, b, a>>: linear RGB of the unpremultiplied colour and its alpha
LinearWithAlpha(c, a) == [i \in 1..4 |-> IF i = 4 THEN a ELSE toLinearRGB(c)[i]]

\* the other types: toLinearRGB of the colour converted to color.NRGBA64
linearizeConverted(n) == LinearWithAlpha([t |-> "NRGBA64", v |-> n], n[4])

unpremultAndLinearize(c) ==
    CASE c.t = "NRGBA" -> LinearWithAlpha(c, c.v[4] * 257)
      [] c.t = "NRGBA64" -> LinearWithAlpha(c, c.v[4])
      [] OTHER -> linearizeConverted(NRGBA64Convert(c))

\* faulty variant: the alpha of the pixel is kept but the channels are not scaled
premultUnscaled(c, a) ==
    IF a = 0 THEN RGBA64(<<0, 0, 0, 0>>)
    ELSE RGBA64(<<c.v[1], c.v[2], c.v[3], a>>)

premult_unscaled(c, at) == premultUnscaled(c, ColorRGBA(at)[4])

\* the colour c premultiplied by the 16-bit alpha a
premultBy(c, a) ==
    IF a = 0 THEN RGBA64(<<0, 0, 0, 0>>)
    ELSE IF a = 65535 THEN c
    ELSE RGBA64([i \in 1..4 |-> IF i = 4 THEN a ELSE MulDiv(c.v[i], a, 65535)])

\* premult(c, x, y, img), given the colour img.At(x, y)
premult(c, at) == premultBy(c, ColorRGBA(at)[4])

\* RoundClamp(float32(v) + float32(e) * w) for the weight w = n/den, den a
\* power of two up to 32: product and sum are exact in float32
RoundClamp(num, den) ==
    IF num < 0 THEN 0
    ELSE IF num > 65535 * den THEN 65535
    ELSE LET q == num \div den
             r2 == 2 * (num % den)
         IN  IF r2 < den THEN q
             ELSE IF r2 > den THEN q + 1
             ELSE IF q % 2 = 0 THEN q ELSE q + 1

-----------------------------------------------------------------------------
(* Images.                                                                 *)

Dx(r) == r[3] - r[1]
Dy(r) == r[4] - r[2]

\* Rectangle.Empty
Empty(r) == r[1] >= r[3] \/ r[2] >= r[4]

\* Point.In
In(p, r) == r[1] <= p[1] /\ p[1] < r[3] /\ r[2] <= p[2] /\ p[2] < r[4]

Points(r) == {<<x, y>> : x \in r[1]..(r[3] - 1), y \in r[2]..(r[4] - 1)}

Max2(a, b) == IF a > b THEN a ELSE b
Min2(a, b) == IF a < b THEN a ELSE b

ZR == <<0, 0, 0, 0>>

\* Rectangle.Intersect
Intersect(r, s) ==
    LET t == <<Max2(r[1], s[1]), Max2(r[2], s[2]), Min2(r[3], s[3]), Min2(r[4], s[4])>>
    IN  IF Empty(t) THEN ZR ELSE t

\* Rectangle.Add
RectAdd(r, p) == <<r[1] + p[1], r[2] + p[2], r[3] + p[1], r[4] + p[2]>>

\* img.At(x, y)
At(img, p) ==
    CASE img.kind = "Paletted" -> img.pal[img.pix[p][1] + 1]
      [] img.kind = "ReadOnly" -> [t |-> "RGBA", v |-> img.pix[p]]
      [] OTHER -> [t |-> img.kind, v |-> img.pix[p]]

Add32(a, b) ==
    LET lo == a[2] + b[2]
    IN  <<(a[1] + b[1] + (lo \div 65536)) % 65536, lo % 65536>>

\* the sum of color.Palette.Index and of drawPaletted
RECURSIVE piSum(_, _, _)
piSum(c, v, i) ==
    IF i > 4 THEN <<0, 0>>
    ELSE Add32(U32(sqDiff(c[i], v[i])), piSum(c, v, i + 1))

piDist(c, v) == piSum(c, v, 1)

RECURSIVE piLoop(_, _, _, _, _)

\* the body of the loop for entry i, whose sum is sum
piStep(p, c, i, ret, bestSum, sum) ==
    IF Less32(sum, bestSum)
    THEN IF sum = <<0, 0>> THEN i
         ELSE piLoop(p, c, i + 1, i, sum)
    ELSE piLoop(p, c, i + 1, ret, bestSum)

piLoop(p, c, i, ret, bestSum) ==
    IF i >= Len(p) THEN ret
    ELSE piStep(p, c, i, ret, bestSum, piDist(c, ColorRGBA(p[i + 1])))

\* color.Palette.Index(c), 0-based
PaletteIndex(p, c) == piLoop(p, ColorRGBA(c), 0, 0, MaxUint32)

\* the stored pixel img.Set(x, y, c) writes: the colour model of the container
\* applied to c, whose premultiplied channels are p
ModelConvert(img, c, p) ==
    CASE img.kind = "Paletted" -> <<PaletteIndex(img.pal, c)>>
      [] c.t = img.kind -> c.v
      [] img.kind = "RGBA" -> [i \in 1..4 |-> p[i] \div 256]
      [] img.kind = "RGBA64" -> p
      [] img.kind = "NRGBA" ->
           IF p[4] = 65535 THEN [i \in 1..4 |-> IF i = 4 THEN 255 ELSE p[i] \div 256]
           ELSE IF p[4] = 0 THEN <<0, 0, 0, 0>>
           ELSE [i \in 1..4 |-> IF i = 4 THEN p[4] \div 256
                                ELSE MulDiv(p[i], 65535, p[4]) \div 256]

SetConv(img, c) == ModelConvert(img, c, ColorRGBA(c))

\* draw.Draw(dst, r, src, sp, draw.Src): the pixels of dst afterwards; r is
\* clipped to dst and to the translated src, and every pixel of the clipped
\* rectangle takes the premultiplied 16-bit colour of its source pixel
DrawSrc(dst, r, src, sp) ==
    LET cr == Intersect(Intersect(r, dst.rect), RectAdd(src.rect, <<r[1] - sp[1], r[2] - sp[2]>>))
    IN  [p \in DOMAIN dst.pix |->
            IF In(p, cr)
            THEN SetConv(dst, RGBA64(ColorRGBA(At(src, <<p[1] - r[1] + sp[1], p[2] - r[2] + sp[2]>>))))
            ELSE dst.pix[p]]

\* identity of the image object a call allocates
FreshId == 3

\* image.NewRGBA(r), all pixels zero
NewRGBA(r) ==
    [id |-> FreshId, kind |-> "RGBA", rect |-> r, pix |-> [p \in Points(r) |-> <<0, 0, 0, 0>>], pal |-> <<>>]

\* copyImage(dst, src): draw.Draw(dst, src.Bounds(), src, src.Bounds().Min, draw.Src)
copyImage(dst, src) ==
    [dst EXCEPT !.pix = DrawSrc(dst, src.rect, src, <<src.rect[1], src.rect[2]>>)]

copyOfImage(img) == copyImage(NewRGBA(img.rect), img)


\* dst3.SubImage(r): a view of the pixels of img inside r, the same object
SubImage(img, r) ==
    LET sr == Intersect(r, img.rect)
    IN  [img EXCEPT !.rect = sr, !.pix = [p \in Points(sr) |-> img.pix[p]]]

\* the parent image after its view has been written
MergeView(img, view) ==
    [img EXCEPT !.pix = [p \in DOMAIN img.pix |-> IF p \in DOMAIN view.pix THEN view.pix[p] ELSE img.pix[p]]]

-----------------------------------------------------------------------------
(* Algorithm selectors.                                                    *)

Nil == "nil"

\* a nil ErrorDiffusionMatrix: no rows
NilMatrix == [rows |-> <<>>, den |-> 1]

\* a nil image
NilImage == [id |-> 0, kind |-> "nil", rect |-> ZR, pix |-> <<>>, pal |-> <<>>]

\* error-diffusion matrices: rows of numerators over the common divisor den
Simple2D == [rows |-> <<<<0, 1>>, <<1, 0>>>>, den |-> 2]

FloydSteinberg == [rows |-> <<<<0, 0, 7>>, <<3, 5, 1>>>>, den |-> 16]

JarvisJudiceNinke ==
    [rows |-> <<<<0, 0, 0, 7, 5>>, <<3, 5, 7, 5, 3>>, <<1, 3, 5, 3, 1>>>>, den |-> 48]

Atkinson ==
    [rows |-> <<<<0, 0, 1, 1>>, <<1, 1, 1, 0>>, <<0, 1, 0, 0>>>>, den |-> 8]

Burkes ==
    [rows |-> <<<<0, 0, 0, 8, 4>>, <<2, 4, 8, 4, 2>>>>, den |-> 32]

Matrices == {Simple2D, FloydSteinberg}

\* ErrorDiffusionMatrix is an exported slice type: matrices a caller writes,
\* with a zero to the right of a weight in the top row, with no zero in the
\* top row, with a top row of zeros only
GappedMatrix == [rows |-> <<<<0, 1, 0, 1>>, <<1, 1, 0, 0>>>>, den |-> 4]

FullMatrix == [rows |-> <<<<1, 1>>, <<1, 1>>>>, den |-> 4]

BlankTopMatrix == [rows |-> <<<<0, 0, 0>>, <<1, 1, 0>>>>, den |-> 2]

\* the matrices Dither is run with: their weights are multiples of 2^-5,
\* which float32 holds exactly
CallerMatrices ==
    {Simple2D, FloydSteinberg, Atkinson, Burkes, GappedMatrix, FullMatrix, BlankTopMatrix}

RECURSIVE cpLoop(_, _)
cpLoop(row, i) ==
    IF i >= Len(row) THEN Len(row) \div 2
    ELSE IF row[i + 1] # 0 THEN i - 1
    ELSE cpLoop(row, i + 1)

CurrentPixel(e) == cpLoop(e.rows[1], 0)

\* faulty variant: the columns are counted from the cell after the current pixel
Offset_pastCurrent(x, y, curPx) == <<x - curPx - 1, y>>

Offset(x, y, curPx) == <<x - curPx, y>>

\* pixel mappers a caller may install: "Identity" and "Checker" are functions
\* of (x, y, r, g, b) only, "Noise" is RandomNoiseGrayscale(-0.5, 0.5), which
\* draws from the shared source of math/rand
Mappers == {"Identity", "Checker", "Noise"}

StatefulMappers == {"Noise"}

ApplyMapper(m, p, q) ==
    CASE m = "Identity" -> q
      [] m = "Checker" ->
           IF (p[1] + p[2]) % 2 = 0 THEN q
           ELSE <<65535 - q[1], 65535 - q[2], 65535 - q[3]>>

\* rand.Float32() of a source seeded before the call, in quarters: the n-th
\* number drawn is RandSeq[n % 4 + 1] / 4
RandSeq == <<0, 3, 2, 1>>

\* the linear gray of RandomNoiseGrayscale, a uint32 sum shifted right by 16
NoiseGray(q) ==
    Add32(Add32(Mul16(13933, q[1]), Mul16(46871, q[2])),
          Add32(Mul16(4732, q[3]), <<0, 32768>>))[1]

\* RoundClamp(float32(gray) + 65535.0*(rand.Float32()*(max-min)+min)) for
\* min = -0.5, max = 0.5 and rand.Float32() = k/4, exact in float32
NoiseValue(gray, k) == RoundClamp(4 * gray + 65535 * (k - 2), 4)

Gray3(v) == <<v, v, v>>

\* the mapper of RandomNoiseGrayscale when n numbers have been drawn
RandomNoiseGrayscale(n, q) == Gray3(NoiseValue(NoiseGray(q), RandSeq[(n % Len(RandSeq)) + 1]))

\* d.Mapper(x, y, r, g, b) when n numbers have been drawn from the source
CallMapper(m, p, q, n) ==
    IF m \in StatefulMappers THEN RandomNoiseGrayscale(n, q) ELSE ApplyMapper(m, p, q)

\* faulty variant: only the first test of invalid, without the test of Special
invalid_firstTestOnly(d) ==
    IF ~((d.Mapper # Nil) # ((d.Matrix # NilMatrix) # (d.Special # 0))) THEN TRUE
    ELSE FALSE

invalid(d) ==
    IF ~((d.Mapper # Nil) # ((d.Matrix # NilMatrix) # (d.Special # 0))) THEN TRUE
    ELSE IF d.Special # 0 THEN TRUE
    ELSE FALSE

-----------------------------------------------------------------------------
(* Pixel-mapper driver.                                                    *)

\* the colour the callback handed to parallel returns for the pixel at p
MapperColour(d, p, c, u) ==
    IF u[4] = 0 THEN c
    ELSE premult(d.palette[closestColor(d.linearPalette,
                                        ApplyMapper(d.Mapper, p, <<u[1], u[2], u[3]>>)) + 1], c)

MapperLinear(d, p, c) == MapperColour(d, p, c, unpremultAndLinearize(c))

MapperPixel(d, img, p) == MapperLinear(d, p, At(img, p))

\* parallel(workers, img, img, f): every pixel is read and written once, by
\* the worker of its band; f reads no other pixel
MapperRun(d, img) ==
    [fault |-> "none",
     pix |-> [p \in DOMAIN img.pix |-> SetConv(img, MapperPixel(d, img, p))]]

-----------------------------------------------------------------------------
(* parallel, worker by worker.  A run is [pix, draws]: the pixels of the   *)
(* image and the count of numbers drawn from the shared random source.     *)

\* runtime.GOMAXPROCS(0) of the largest host
MaxProcs == 2

\* the largest side of a generated Bayer matrix is 2^MaxLog
MaxLog == 3

\* the largest side Bayer is asked for
MaxSide == 5

\* faulty variant: SingleThreaded is not looked at
WorkerCounts_flagIgnored(d) == 1..MaxProcs

\* the numbers of workers Dither may hand to parallel
WorkerCounts(d) == IF d.SingleThreaded THEN {1} ELSE 1..MaxProcs

\* faulty variant: the last part has partSize rows as well
Parts_noRemainder(workers, partSize, b) ==
    [i \in 1..workers |-> <<partSize * (i - 1) + b[2], partSize * i + b[2]>>]

\* the parts <<min, max>> of workers workers of partSize rows each
Parts(workers, partSize, b) ==
    [i \in 1..workers |-> <<partSize * (i - 1) + b[2],
                             IF i = workers THEN b[4] ELSE partSize * i + b[2]>>]

\* the parts parallel hands to its workers for the bounds b
Bands(workers, b) ==
    IF workers = 1 \/ Dy(b) = 1 THEN <<<<b[2], b[4]>>>>
    ELSE IF Dy(b) \div workers = 0 THEN Parts(Dy(b), 1, b)
    ELSE Parts(workers, Dy(b) \div workers, b)

\* the number of pixels of a part, and its k-th pixel in the order of worker
BandSize(b, band) == Dx(b) * (band[2] - band[1])

BandPixel(b, band, k) == <<b[1] + (k % Dx(b)), band[1] + (k \div Dx(b))>>

\* faulty variant: the test of the alpha is missing
WorkerColour_noAlphaTest(d, p, c, u, n) ==
    premult(d.palette[closestColor(d.linearPalette,
                                   CallMapper(d.Mapper, p, <<u[1], u[2], u[3]>>, n)) + 1], c)

\* the colour the callback returns for the pixel at p, of colour c
WorkerColour(d, p, c, u, n) ==
    IF u[4] = 0 THEN c
    ELSE premult(d.palette[closestColor(d.linearPalette,
                                        CallMapper(d.Mapper, p, <<u[1], u[2], u[3]>>, n)) + 1], c)

\* the run after dst.Set(x, y, f(x, y, c)): a pixel that is not transparent
\* takes one number from the source when the mapper draws
WorkerSet(d, img, run, p, c, u) ==
    [pix |-> [run.pix EXCEPT ![p] = SetConv(img, WorkerColour(d, p, c, u, run.draws))],
     draws |-> IF u[4] # 0 /\ d.Mapper \in StatefulMappers THEN run.draws + 1 ELSE run.draws]

WorkerRead(d, img, run, p, c) == WorkerSet(d, img, run, p, c, unpremultAndLinearize(c))

\* one iteration of the loop of worker, at the pixel p
WorkerPixel(d, img, run, p) == WorkerRead(d, img, run, p, At([img EXCEPT !.pix = run.pix], p))

\* the fast path of parallel: worker(b.Min.Y, b.Max.Y) on the caller's thread
RECURSIVE seqLoop(_, _, _, _)
seqLoop(d, img, run, k) ==
    IF k >= BandSize(img.rect, <<img.rect[2], img.rect[4]>>) THEN run
    ELSE seqLoop(d, img,
                 WorkerPixel(d, img, run, BandPixel(img.rect, <<img.rect[2], img.rect[4]>>, k)),
                 k + 1)

SequentialRun(d, img) == seqLoop(d, img, [pix |-> img.pix, draws |-> 0], 0)

-----------------------------------------------------------------------------
(* Error-diffusion driver.                                                 *)

\* lins: Dy rows of Dx cells, indexed lins[y][x] from 0
LinsDomain(b) == {<<y, x>> : y \in 0..(Dy(b) - 1), x \in 0..(Dx(b) - 1)}

\* the diffusion loops over the cells (yy, xx) of the matrix; st = [lins,
\* pix, fault, touched, trace], where touched holds the pixels whose cell of
\* lins the error of the current pixel has modified, and trace lists, in the
\* order of the scan, each pixel p that was quantized with its touched
RECURSIVE diffuseCells(_, _, _, _, _, _)
diffuseCells(d, b, p, e, st, k) ==
    LET ncols == Len(d.Matrix.rows[1])
        yy == k \div ncols
        xx == k % ncols
    IN  IF st.fault # "none" \/ yy >= Len(d.Matrix.rows) THEN st
        ELSE LET w == d.Matrix.rows[yy + 1][xx + 1]
                 off == Offset(xx, yy, CurrentPixel(d.Matrix))
                 deltaX == IF d.Serpentine /\ p[2] % 2 = 0 THEN off[1] * (-1) ELSE off[1]
                 px == <<p[1] + deltaX, p[2] + off[2]>>
                 cell == <<px[2], px[1]>>
                 den == d.Matrix.den
             IN  IF w = 0 THEN diffuseCells(d, b, p, e, st, k + 1)
                 ELSE IF ~In(px, b) THEN diffuseCells(d, b, p, e, st, k + 1)
                 ELSE IF cell \notin DOMAIN st.lins
                      THEN [st EXCEPT !.fault = "index"]
                 ELSE LET v == st.lins[cell]
                          nv == <<RoundClamp(v[1] * den + e[1] * w, den),
                                  RoundClamp(v[2] * den + e[2] * w, den),
                                  RoundClamp(v[3] * den + e[3] * w, den)>>
                      IN  diffuseCells(d, b, p, e,
                                       [st EXCEPT !.lins[cell] = nv, !.touched = @ \cup {px}],
                                       k + 1)

\* the pixel at p takes palette entry newColorIdx and its error is diffused
scanPixel(d, img, st, p, newColorIdx) ==
    LET old == st.lins[<<p[2], p[1]>>]
        new == d.linearPalette[newColorIdx + 1]
        e == <<old[1] - new[1], old[2] - new[2], old[3] - new[3]>>
        out == SetConv(img, premult(d.palette[newColorIdx + 1], At([img EXCEPT !.pix = st.pix], p)))
    IN  diffuseCells(d, img.rect, p, e, [st EXCEPT !.pix[p] = out, !.touched = {}], 0)

\* the step at the pixel p is done
scanDone(st, p) == [st EXCEPT !.trace = Append(@, [p |-> p, touched |-> st.touched])]

\* the scan over the pixels; k counts the pixels done
RECURSIVE scanLoop(_, _, _, _)
scanLoop(d, img, st, k) ==
    LET b == img.rect
        w == Dx(b)
    IN  IF st.fault # "none" \/ Empty(b) \/ k >= w * Dy(b) THEN st
        ELSE LET y == b[2] + (k \div w)
                 x0 == b[1] + (k % w)
                 x == IF d.Serpentine /\ y % 2 = 0 THEN b[3] - 1 - x0 ELSE x0
                 cell == <<y, x>>
             IN  IF cell \notin DOMAIN st.lins \/ <<x, y>> \notin DOMAIN st.pix
                 THEN [st EXCEPT !.fault = "index"]
                 ELSE scanLoop(d, img,
                               scanDone(scanPixel(d, img, st, <<x, y>>,
                                                  closestColor(d.linearPalette, st.lins[cell])),
                                        <<x, y>>),
                               k + 1)

\* CurrentPixel reads the top row of the matrix; the pre-fill writes
\* lins[y][x] for every pixel (x, y) of the bounds; both panic on an index
\* out of range, before any pixel is set
MatrixRun(d, img) ==
    LET b == img.rect
    IN  IF Len(d.Matrix.rows) = 0 \/ \E p \in Points(b) : <<p[2], p[1]>> \notin LinsDomain(b)
        THEN [lins |-> <<>>, pix |-> img.pix, fault |-> "index", touched |-> {}, trace |-> <<>>]
        ELSE scanLoop(d, img,
                      [lins |-> [c \in LinsDomain(b) |->
                                    SubSeq(unpremultAndLinearize(At(img, <<c[2], c[1]>>)), 1, 3)],
                       pix |-> img.pix,
                       fault |-> "none",
                       touched |-> {},
                       trace |-> <<>>],
                      0)


-----------------------------------------------------------------------------
(* Entry points.  Each returns the outcome of the call: fault ("none" when  *)
(* the call returns), ret (the image returned) and after (the caller's     *)
(* image when the call ends).                                              *)

\* faulty variant: a paletted image with another palette is dithered where it is
DitherTarget_noCopy(d, src) ==
    IF src.kind = "Paletted"
    THEN IF ~samePalette(d.palette, src.pal) THEN src ELSE NilImage
    ELSE IF src.kind # "ReadOnly" THEN src
    ELSE copyOfImage(src)

\* the image Dither works on: src itself, a copy, or nil
DitherTarget(d, src) ==
    IF src.kind = "Paletted"
    THEN IF ~samePalette(d.palette, src.pal) THEN copyOfImage(src) ELSE NilImage
    ELSE IF src.kind # "ReadOnly" THEN src
    ELSE copyOfImage(src)

\* the outcome of Dither once the driver has run on img
DitherOutcome(src, img, run) ==
    [fault |-> run.fault,
     ret |-> IF run.fault = "none" THEN [img EXCEPT !.pix = run.pix] ELSE NilImage,
     after |-> IF img.id = src.id THEN [img EXCEPT !.pix = run.pix] ELSE src]

\* Dither from the first use of img on: a nil img faults at img.Bounds()
DitherImage(d, src, img) ==
    IF img.kind = "nil" THEN [fault |-> "nil", ret |-> NilImage, after |-> src]
    ELSE DitherOutcome(src, img, IF d.Mapper # Nil THEN MapperRun(d, img) ELSE MatrixRun(d, img))

Dither(d, src) ==
    IF invalid(d) THEN [fault |-> "invalid", ret |-> NilImage, after |-> src]
    ELSE DitherImage(d, src, DitherTarget(d, src))

DitherCopy(d, src) ==
    IF invalid(d) THEN [fault |-> "invalid", ret |-> NilImage, after |-> src]
    ELSE [Dither(d, copyOfImage(src)) EXCEPT !.after = src]

\* image.Paletted holds at most 256 colours
MaxPaletted == 256

\* image.NewPaletted(r, p), all pixels index 0
NewPaletted(r, p) ==
    [id |-> FreshId + 1, kind |-> "Paletted", rect |-> r, pix |-> [q \in Points(r) |-> <<0>>], pal |-> p]

\* the image DitherCopy returned, res.ret, is copied into a paletted image
PalettedOutcome(d, src, res) ==
    IF res.fault # "none" THEN res
    ELSE [fault |-> "none",
          ret |-> copyImage(NewPaletted(res.ret.rect, copyPalette(d.palette)), res.ret),
          after |-> src]

DitherPaletted(d, src) ==
    IF Len(d.palette) > MaxPaletted THEN [fault |-> "palette", ret |-> NilImage, after |-> src]
    ELSE PalettedOutcome(d, src, DitherCopy(d, src))

\* clip(dst, &r, src, &sp, nil, nil): the clipped <<r, sp>>
clip(dst, r, src, sp) ==
    LET r1 == Intersect(r, dst.rect)
        r2 == Intersect(r1, RectAdd(src.rect, <<r[1] - sp[1], r[2] - sp[2]>>))
        dx == r2[1] - r[1]
        dy == r2[2] - r[2]
    IN  <<r2, <<sp[1] + dx, sp[2] + dy>>>>

\* Draw(dst, r, src, sp): no image is returned, after is dst when the call ends
\* the outcome of Draw once Dither has run on the view of drawn; dst3 is a
\* copy when dst is paletted, and is copied back only when Dither returns
DrawOutcome(dst, drawn, res) ==
    [fault |-> res.fault,
     ret |-> NilImage,
     after |-> IF dst.kind # "Paletted" THEN MergeView(drawn, res.after)
               ELSE IF res.fault # "none" THEN dst
               ELSE copyImage(dst, MergeView(drawn, res.after))]

\* d.Dither(dst3.SubImage(r)) on dst3 after draw.Draw
DrawDither(d, dst, r, drawn) == DrawOutcome(dst, drawn, Dither(d, SubImage(drawn, r)))

\* Draw from clip on: c is the clipped <<r, sp>>
DrawClipped(d, dst, dst3, src, c) ==
    IF Empty(c[1]) THEN [fault |-> "none", ret |-> NilImage, after |-> dst]
    ELSE DrawDither(d, dst, c[1], [dst3 EXCEPT !.pix = DrawSrc(dst3, c[1], src, c[2])])

\* Draw on dst3: dst itself, or its RGBA copy when dst is paletted
DrawOn(d, dst, dst3, r, src, sp) == DrawClipped(d, dst, dst3, src, clip(dst3, r, src, sp))

Draw(d, dst, r, src, sp) ==
    IF invalid(d) THEN [fault |-> "invalid", ret |-> NilImage, after |-> dst]
    ELSE IF dst.kind = "Paletted" /\ ~samePalette(d.palette, dst.pal)
    THEN [fault |-> "dstpalette", ret |-> NilImage, after |-> dst]
    ELSE DrawOn(d, dst, IF dst.kind = "Paletted" THEN copyOfImage(dst) ELSE dst, r, src, sp)

sameColor(c1, c2) == ColorRGBA(c1) = ColorRGBA(c2)

\* subset(p1, p2): the loops of the source; an empty p2 never runs the body
subset(p1, p2) ==
    \A i \in 1..Len(p1) :
        Len(p2) = 0 \/ \E j \in 1..Len(p2) : sameColor(p1[i], p2[j])

\* Quantize(p, m) for a p of length Len(p) and capacity cap; the palette
\* returned is d.palette itself, not a copy
Quantize(d, p, cap) ==
    IF cap < Len(d.palette) THEN [fault |-> "cap", pal |-> <<>>, alias |-> FALSE]
    ELSE IF Len(p) > Len(d.palette) THEN [fault |-> "colors", pal |-> <<>>, alias |-> FALSE]
    ELSE IF Len(p) > 0 /\ ~subset(p, d.palette) THEN [fault |-> "colors", pal |-> <<>>, alias |-> FALSE]
    ELSE [fault |-> "none", pal |-> d.palette, alias |-> TRUE]

GetPalette(d) == [fault |-> "none", pal |-> copyPalette(d.palette), alias |-> FALSE]

GetColorModel(d) == [fault |-> "none", pal |-> copyPalette(d.palette), alias |-> FALSE]


-----------------------------------------------------------------------------
(* float32 arithmetic of the ordered-dither mappers (IEEE 754, round to    *)
(* nearest, ties to even).  A finite value is s * m * 2^e with s in        *)
(* {-1, 0, 1} and m = 0 or 2^23 <= m < 2^24; k tells "fin", "inf", "nan".  *)

F32Zero == [k |-> "fin", s |-> 0, m |-> 0, e |-> 0]

F32Inf(s) == [k |-> "inf", s |-> s, m |-> 0, e |-> 0]

F32NaN == [k |-> "nan", s |-> 0, m |-> 0, e |-> 0]

RECURSIVE BitLen(_)
BitLen(n) == IF n = 0 THEN 0 ELSE 1 + BitLen(n \div 2)

\* q, the quotient of a division by 2^sh, with remainder r: the next integer
\* when r is above the half, or at the half and q is odd
TiesToEven(q, r, sh) ==
    IF 2 * r > 2 ^ sh \/ (2 * r = 2 ^ sh /\ q % 2 = 1) THEN q + 1 ELSE q

\* s * m * 2^e with m < 2^25 brought to 2^23 <= m < 2^24
F32Normal(s, m, e) ==
    IF m >= 2 ^ 24 THEN [k |-> "fin", s |-> s, m |-> m \div 2, e |-> e + 1]
    ELSE [k |-> "fin", s |-> s, m |-> m, e |-> e]

\* s * n * 2^e for n of len bits, 0 < n < 2^31, rounded to 24 bits
F32RoundBits(s, n, e, len) ==
    IF len <= 24 THEN [k |-> "fin", s |-> s, m |-> n * 2 ^ (24 - len), e |-> e - (24 - len)]
    ELSE F32Normal(s, TiesToEven(n \div 2 ^ (len - 24), n % 2 ^ (len - 24), len - 24), e + len - 24)

F32Round(s, n, e) == IF n = 0 \/ s = 0 THEN F32Zero ELSE F32RoundBits(s, n, e, BitLen(n))

\* float32(n) of an unsigned integer n < 2^31
F32FromInt(n) == F32Round(1, n, 0)

\* n / 2^sh with the bits shifted out kept as a set lowest bit
Jam(n, sh) ==
    IF sh > 30 THEN 1
    ELSE IF n % 2 ^ sh = 0 THEN n \div 2 ^ sh
    ELSE ((n \div 2 ^ sh) \div 2) * 2 + 1

Sign(n) == IF n > 0 THEN 1 ELSE IF n < 0 THEN -1 ELSE 0

Abs(n) == IF n < 0 THEN -n ELSE n

\* the sum of two finite values that are not 0, big having the exponent that
\* is not the smaller one: three more bits are kept below the mantissa of big
F32AddAligned(big, small) ==
    F32Round(Sign(big.s * big.m * 8 + small.s * Jam(small.m * 8, big.e - small.e)),
             Abs(big.s * big.m * 8 + small.s * Jam(small.m * 8, big.e - small.e)),
             big.e - 3)

\* x + y
F32Add(x, y) ==
    IF x.k = "nan" \/ y.k = "nan" THEN F32NaN
    ELSE IF x.k = "inf" THEN (IF y.k = "inf" /\ y.s # x.s THEN F32NaN ELSE x)
    ELSE IF y.k = "inf" THEN y
    ELSE IF x.s = 0 THEN y
    ELSE IF y.s = 0 THEN x
    ELSE IF x.e >= y.e THEN F32AddAligned(x, y)
    ELSE F32AddAligned(y, x)

F32Neg(x) == [x EXCEPT !.s = -x.s]

\* the product of two mantissas below 2^24 as <<hi, lo>>, hi * 2^24 + lo,
\* from their halves of 12 bits
MantissaProduct(a1, a0, b1, b0) ==
    <<a1 * b1 + ((a1 * b0 + a0 * b1) \div 4096)
              + ((a0 * b0 + ((a1 * b0 + a0 * b1) % 4096) * 4096) \div 2 ^ 24),
      (a0 * b0 + ((a1 * b0 + a0 * b1) % 4096) * 4096) % 2 ^ 24>>

\* the product hi * 2^24 + lo with three bits kept below hi
F32MulRound(s, p, e) ==
    F32Round(s, p[1] * 8 + Jam(p[2], 21), e + 21)

\* x * y
F32Mul(x, y) ==
    IF x.k = "nan" \/ y.k = "nan" THEN F32NaN
    ELSE IF x.k = "inf" \/ y.k = "inf"
         THEN (IF x.s * y.s = 0 THEN F32NaN ELSE F32Inf(x.s * y.s))
    ELSE IF x.s * y.s = 0 THEN F32Zero
    ELSE F32MulRound(x.s * y.s,
                     MantissaProduct(x.m \div 4096, x.m % 4096, y.m \div 4096, y.m % 4096),
                     x.e + y.e)

\* the least k with a * 2^k / b >= 2^23
RECURSIVE DivShift(_, _, _)
DivShift(a, b, k) == IF (a * 2 ^ k) \div b >= 2 ^ 23 THEN k ELSE DivShift(a, b, k + 1)

\* the quotient q with remainder r of a division by b, to the nearest, ties
\* to even
DivNearest(q, r, b) == IF 2 * r > b \/ (2 * r = b /\ q % 2 = 1) THEN q + 1 ELSE q

F32DivShifted(a, b, k) ==
    F32Normal(1, DivNearest((a * 2 ^ k) \div b, (a * 2 ^ k) % b, b), -k)

\* float32(a) / float32(b) for unsigned integers a, b < 2^8
F32Div(a, b) ==
    IF b = 0 THEN (IF a = 0 THEN F32NaN ELSE F32Inf(1))
    ELSE IF a = 0 THEN F32Zero
    ELSE F32DivShifted(a, b, DivShift(a, b, 0))

\* the constant 0.50000006 as a float32: 0.5 + 2^-24
Half32 == [k |-> "fin", s |-> 1, m |-> 2 ^ 23 + 1, e |-> -24]

\* RoundClamp of a float32: the results the conversion uint16(NaN) may give
\* are left to the implementation
NaNResults == {0, 32768, 65535}

RoundClamp32(i) ==
    IF i.k = "nan" THEN NaNResults
    ELSE IF i.s < 0 THEN {0}
    ELSE IF i.k = "inf" THEN {65535}
    ELSE IF i.s = 0 THEN {0}
    ELSE IF i.e > -8 \/ (i.e = -8 /\ i.m > 65535 * 256) THEN {65535}
    ELSE IF i.e < -25 THEN {0}
    ELSE {TiesToEven(i.m \div 2 ^ (-i.e), i.m % 2 ^ (-i.e), -i.e)}

-----------------------------------------------------------------------------
(* Ordered dithering: the Bayer threshold matrix.  The values are Go uints  *)
(* far below 2^31, so the bit operations are written on naturals.          *)

\* bit k of v; a shift by a count that has wrapped below 0 (uint) or is not
\* below the width of the word leaves nothing
BitAt(v, k) == IF k < 0 \/ k > 30 THEN 0 ELSE (v \div (2 ^ k)) % 2

\* v |= b << bit
OrBit(v, b, bit) == IF b = 1 /\ BitAt(v, bit) = 0 THEN v + 2 ^ bit ELSE v

\* a ^ b
RECURSIVE Xor(_, _)
Xor(a, b) ==
    IF a = 0 THEN b
    ELSE IF b = 0 THEN a
    ELSE ((a + b) % 2) + 2 * Xor(a \div 2, b \div 2)

\* a & b
RECURSIVE And(_, _)
And(a, b) ==
    IF a = 0 \/ b = 0 THEN 0
    ELSE ((a % 2) * (b % 2)) + 2 * And(a \div 2, b \div 2)

RECURSIVE log2Loop(_, _)
log2Loop(v, r) == IF v = 0 THEN r ELSE log2Loop(v \div 2, r + 1)

log2(v) == log2Loop(v \div 2, 0)

\* the inner for loop: while offset >= sub, the next lower bit of c is put
\* at position bit; st = [v, bit, offset, mask]
RECURSIVE bayerInner(_, _, _)
bayerInner(c, sub, st) ==
    IF st.offset < sub THEN st
    ELSE bayerInner(c, sub, [v |-> OrBit(st.v, BitAt(c, st.mask - 1), st.bit),
                             bit |-> st.bit + 1,
                             offset |-> st.offset - sub,
                             mask |-> st.mask - 1])

\* the state after the inner loop, as the state of the outer loop
bayerAfterInner(pmask, in) ==
    [v |-> in.v, bit |-> in.bit, offset |-> in.offset, pmask |-> pmask, smask |-> in.mask]

\* the outer for loop over bit < M+L: one bit of pc, then the inner loop over
\* the bits of sc; st = [v, bit, offset, pmask, smask]
RECURSIVE bayerOuter(_, _, _, _, _, _)
bayerOuter(pc, sc, add, sub, total, st) ==
    IF st.bit >= total THEN st.v
    ELSE bayerOuter(pc, sc, add, sub, total,
                    bayerAfterInner(st.pmask - 1,
                                    bayerInner(sc, sub,
                                               [v |-> OrBit(st.v, BitAt(pc, st.pmask - 1), st.bit),
                                                bit |-> st.bit + 1,
                                                offset |-> st.offset + add,
                                                mask |-> st.smask])))

\* faulty variant: the coordinates are interleaved without the exclusive or
bayerCell_noXor(x, y, M, L) ==
    IF M = 0 \/ (M > L /\ L # 0)
    THEN bayerOuter(y, x, M, L, M + L, [v |-> 0, bit |-> 0, offset |-> 0, pmask |-> L, smask |-> M])
    ELSE bayerOuter(x, y, L, M, M + L, [v |-> 0, bit |-> 0, offset |-> 0, pmask |-> M, smask |-> L])

\* the cell (x, y) of the matrix: the first branch starts from the bits of yc
\* and takes those of xc in the inner loop, the second the other way round
bayerCell(x, y, M, L) ==
    IF M = 0 \/ (M > L /\ L # 0)
    THEN bayerOuter(y, Xor(x, (y * (2 ^ M)) \div (2 ^ L)), M, L, M + L,
                    [v |-> 0, bit |-> 0, offset |-> 0, pmask |-> L, smask |-> M])
    ELSE bayerOuter(x, Xor(y, (x * (2 ^ L)) \div (2 ^ M)), L, M, M + L,
                    [v |-> 0, bit |-> 0, offset |-> 0, pmask |-> M, smask |-> L])

\* ydim rows of xdim cells
bayerMatrix(xdim, ydim) ==
    [y \in 1..ydim |-> [x \in 1..xdim |-> bayerCell(x - 1, y - 1, log2(xdim), log2(ydim))]]

-----------------------------------------------------------------------------
(* Ordered dithering: the pixel mappers built from a threshold matrix.  A   *)
(* mapper is [fault, matrix, max, xdim, ydim, precalc]; fault is "none"    *)
(* when the constructor has returned the closure.                          *)

OrderedDitherMatrix(rows, max) == [Matrix |-> rows, Max |-> max]

ClusteredDot4x4 ==
    OrderedDitherMatrix(<<<<12, 5, 6, 13>>, <<4, 0, 1, 7>>, <<11, 3, 2, 8>>, <<15, 10, 9, 14>>>>, 16)

Vertical5x3 ==
    OrderedDitherMatrix(<<<<9, 3, 0, 6, 12>>, <<10, 4, 1, 7, 13>>, <<11, 5, 2, 8, 14>>>>, 15)

\* scale * (float32(value+1.0)/float32(max) - 0.50000006)
convThresholdToAddition(scale, value, max) ==
    F32Mul(scale, F32Add(F32Div(value + 1, max), F32Neg(Half32)))

\* the precalculated matrix of a constructor
precalcOf(matrix, scale, max) ==
    [i \in 1..Len(matrix) |->
        [j \in 1..Len(matrix[i]) |-> convThresholdToAddition(scale, matrix[i][j], max)]]

NoMapper(fault) ==
    [fault |-> fault, matrix |-> <<>>, max |-> 0, xdim |-> 0, ydim |-> 0, precalc |-> <<>>]

\* the threshold matrix Bayer takes for (x, y), or its panic
BayerThresholds(x, y) ==
    IF x = 0 \/ y = 0 THEN [fault |-> "panic", matrix |-> <<>>]
    ELSE IF x = 3 /\ y = 3
         THEN [fault |-> "none", matrix |-> <<<<0, 5, 2>>, <<3, 8, 7>>, <<6, 1, 4>>>>]
    ELSE IF x = 5 /\ y = 3
         THEN [fault |-> "none",
               matrix |-> <<<<0, 12, 7, 3, 9>>, <<14, 8, 1, 5, 11>>, <<6, 4, 10, 13, 2>>>>]
    ELSE IF x = 3 /\ y = 5
         THEN [fault |-> "none",
               matrix |-> <<<<0, 14, 16>>, <<12, 8, 4>>, <<7, 1, 10>>, <<3, 5, 13>>, <<9, 11, 2>>>>]
    ELSE IF And(x, x - 1) = 0 /\ And(y, y - 1) = 0
         THEN [fault |-> "none", matrix |-> bayerMatrix(x, y)]
    ELSE [fault |-> "panic", matrix |-> <<>>]

\* Bayer once the threshold matrix th is chosen
BayerFrom(x, y, strength, th) ==
    IF th.fault # "none" THEN NoMapper(th.fault)
    ELSE [fault |-> "none", matrix |-> th.matrix, max |-> x * y, xdim |-> x, ydim |-> y,
          precalc |-> precalcOf(th.matrix, F32Mul(F32FromInt(65535), strength), x * y)]

Bayer(x, y, strength) == BayerFrom(x, y, strength, BayerThresholds(x, y))

\* odm.Matrix[0] and odm.Matrix[i][j] for j < xdim panic on an index out of
\* range
PixelMapperFromMatrix(odm, strength) ==
    IF Len(odm.Matrix) = 0 \/ \E i \in 1..Len(odm.Matrix) : Len(odm.Matrix[i]) < Len(odm.Matrix[1])
    THEN NoMapper("index")
    ELSE [fault |-> "none", matrix |-> odm.Matrix, max |-> odm.Max,
          xdim |-> Len(odm.Matrix[1]), ydim |-> Len(odm.Matrix),
          precalc |-> precalcOf([i \in 1..Len(odm.Matrix) |-> SubSeq(odm.Matrix[i], 1, Len(odm.Matrix[1]))],
                                F32Mul(F32FromInt(65535), strength), odm.Max)]

\* a % n of Go for n > 0: the remainder has the sign of a
GoRem(a, n) == IF a >= 0 THEN a % n ELSE -((-a) % n)

\* the results of one call of the closure once the cell of precalc is read
MapperResults(q, cell) ==
    {[fault |-> "none", out |-> <<r, g, b>>] :
        r \in RoundClamp32(F32Add(F32FromInt(q[1]), cell)),
        g \in RoundClamp32(F32Add(F32FromInt(q[2]), cell)),
        b \in RoundClamp32(F32Add(F32FromInt(q[3]), cell))}

\* the closure at (xx, yy): precalc[yy % ydim][xx % xdim] panics on a division
\* by zero or on an index out of range
MapperOutcomes(pm, xx, yy, q) ==
    IF pm.xdim = 0 \/ pm.ydim = 0 THEN {[fault |-> "divide", out |-> <<>>]}
    ELSE IF GoRem(yy, pm.ydim) < 0 \/ GoRem(xx, pm.xdim) < 0 THEN {[fault |-> "index", out |-> <<>>]}
    ELSE MapperResults(q, pm.precalc[GoRem(yy, pm.ydim) + 1][GoRem(xx, pm.xdim) + 1])

-----------------------------------------------------------------------------
(* The inputs of the model.                                                *)

RGBA8(r, g, b, a) == [t |-> "RGBA", v |-> <<r, g, b, a>>]

\* the palettes handed to NewDitherer
UserPalettes ==
    { <<RGBA8(0, 0, 0, 255), RGBA8(255, 255, 255, 255)>>,
      <<RGBA8(6, 6, 6, 255), RGBA8(127, 127, 127, 255)>>,
      <<RGBA8(255, 0, 0, 255), RGBA8(0, 255, 0, 255), RGBA8(0, 0, 0, 255)>>,
      <<RGBA8(100, 100, 100, 255), RGBA8(255, 255, 255, 255)>>,
      <<RGBA64(<<4660, 4660, 4660, 65535>>), RGBA8(255, 255, 255, 255)>>,
      <<RGBA64(<<0, 0, 0, 65535>>), RGBA64(<<13, 13, 13, 65535>>)>> }

\* the stored pixels an input image of each container type is made of
PixelsOf(kind) ==
    CASE kind = "NRGBA" ->
           << <<200, 200, 200, 1>>, <<100, 100, 100, 1>>, <<200, 200, 200, 0>>, <<92, 92, 92, 255>> >>
      [] kind = "RGBA64" ->
           << <<4660, 4660, 4660, 4660>>, <<0, 0, 0, 65535>>,
              <<33023, 33023, 33023, 65535>>, <<65535, 65535, 65535, 65535>> >>
      [] OTHER ->
           << <<188, 188, 188, 255>>, <<92, 92, 92, 255>>, <<64, 64, 64, 128>>, <<0, 0, 0, 0>> >>

\* an image of w x h pixels at the origin; ph shifts the pixel pattern
Img(id, kind, w, h, ph) ==
    [id |-> id, kind |-> kind, rect |-> <<0, 0, w, h>>,
     pix |-> [p \in Points(<<0, 0, w, h>>) |-> PixelsOf(kind)[((ph + p[1] + w * p[2]) % 4) + 1]],
     pal |-> <<>>]

\* an image with the bounds r
ImgAt(id, kind, r, ph) ==
    [id |-> id, kind |-> kind, rect |-> r,
     pix |-> [p \in Points(r) |-> PixelsOf(kind)[((ph + p[1] + 3 * p[2]) % 4) + 1]],
     pal |-> <<>>]

\* a paletted image over the palette pal
PalImg(id, pal, w, h, ph) ==
    [id |-> id, kind |-> "Paletted", rect |-> <<0, 0, w, h>>,
     pix |-> [p \in Points(<<0, 0, w, h>>) |-> <<(ph + p[1] + w * p[2]) % Len(pal)>>],
     pal |-> pal]

\* a palette that no Ditherer of the model has
OtherPalette == <<RGBA8(0, 0, 255, 255), RGBA8(255, 255, 255, 255)>>

\* the images a caller hands to Dither, DitherCopy and DitherPaletted
Sources(pal) ==
    {Img(1, k, w, h, ph) : k \in {"RGBA", "NRGBA", "RGBA64", "ReadOnly"},
                           w \in 1..MaxW, h \in 1..MaxH, ph \in 0..3}
    \cup {PalImg(1, p, w, h, ph) : p \in {copyPalette(pal), OtherPalette},
                                   w \in 1..MaxW, h \in 1..MaxH, ph \in 0..1}

\* the colours unpremultAndLinearize is asked about, of the four RGBA types
UnpremultColours ==
    {[t |-> k, v |-> PixelsOf(k)[i]] : k \in {"RGBA", "NRGBA", "RGBA64"}, i \in 1..4}
    \cup {[t |-> "NRGBA64", v |-> <<4660, 4660, 4660, a>>] : a \in {0, 65535}}

\* the channel values sqDiff is asked about
SqValues == {0, 1, 3, 32768, 65534, 65535}

\* the greatest side of the images of ScanSources
MaxScan == 3

\* the images the error-diffusion branch of Dither works on: images at the
\* origin, and images whose bounds start elsewhere, as those SubImage returns
ScanSources ==
    {ImgAt(1, "RGBA64", r, 0) :
        r \in {<<0, 0, w, h>> : w \in 1..MaxScan, h \in 1..MaxScan}
               \cup {<<1, 0, MaxScan, 2>>, <<0, 1, 2, MaxScan>>, <<-1, -1, 1, 1>>}}

\* opaque images whose pixels are colours of the palette pal
PaletteImages(pal) ==
    {[id |-> 1, kind |-> "RGBA64", rect |-> <<0, 0, w, h>>,
      pix |-> [p \in Points(<<0, 0, w, h>>) |-> pal[((ph + p[1] + w * p[2]) % Len(pal)) + 1].v],
      pal |-> <<>>] : w \in 1..MaxW, h \in 1..MaxH, ph \in 0..1}

\* the images handed to the Dither calls that are followed worker by worker
ParSources ==
    {Img(1, k, MaxW, MaxH, ph) : k \in {"RGBA", "NRGBA"}, ph \in {0, 2}}

\* the arguments of Draw
DrawDsts(pal) ==
    {Img(1, k, MaxW, MaxH, 0) : k \in {"RGBA", "NRGBA", "RGBA64"}}
    \cup {PalImg(1, p, MaxW, MaxH, 0) : p \in {copyPalette(pal), OtherPalette}}

DrawSrcs == {Img(2, "RGBA", MaxW, MaxH, 1), Img(2, "NRGBA", MaxW, MaxH, 0)}

DrawRects == {<<0, 0, MaxW, MaxH>>, <<1, 0, MaxW, MaxH>>, <<-1, -1, MaxW + 1, MaxH + 1>>, <<1, 1, 1, 1>>}

DrawPoints == {<<0, 0>>, <<1, 0>>}

\* the side lengths bayerMatrix is asked for: the powers of two up to 2^MaxLog
BayerSides == {2 ^ k : k \in 0..MaxLog}

\* the sides Bayer is asked for
BayerArgs == 0..MaxSide

\* strength: 1.0, -1.0 and 0
Strengths == {F32FromInt(1), F32Neg(F32FromInt(1)), F32Zero}

\* the matrices handed to PixelMapperFromMatrix: two of the library, one
\* whose Max was left as 0, one without rows
OrderedMatrices ==
    {ClusteredDot4x4, Vertical5x3, [ClusteredDot4x4 EXCEPT !.Max = 0], OrderedDitherMatrix(<<>>, 1)}

\* the pixels and linear colours a pixel mapper is called with
MapperPoints == {<<0, 0>>, <<1, 2>>, <<-1, 0>>, <<6, -3>>}

MapperColours == {<<0, 0, 0>>, <<Lin8Table[93], 32768, 65535>>}

\* the linear colours closestColor is asked about
QueryValues == {0, Lin8Table[93], 32768, 65535}

Queries == {<<r, g, b>> : r \in QueryValues, g \in QueryValues, b \in QueryValues}

\* the colour a caller writes into a palette it holds
MutColor == RGBA64(<<65535, 0, 65535, 65535>>)

\* the palettes handed to Quantize: empty, one colour of the Ditherer, a
\* colour it does not have, one of its colours four times
QuantizeArgs(pal) == {<<>>, <<pal[1]>>, <<MutColor>>, <<pal[1], pal[1], pal[1], pal[1]>>}

\* p back to front
Reverse(p) == [i \in 1..Len(p) |-> p[Len(p) + 1 - i]]

\* the palettes samePalette is asked about: the Ditherer's, its reverse, the
\* slice NewDitherer was given, one with another first colour, one with the
\* second colour twice, one of another length
ComparedPalettes(pal) ==
    {pal, Reverse(pal), [pal EXCEPT ![1] = MutColor], [pal EXCEPT ![1] = pal[2]], OtherPalette,
     Append(pal, pal[1])}
    \cup {p \in UserPalettes : copyPalette(p) = pal}

-----------------------------------------------------------------------------
(* The state machine.  call is the operation in progress at the caller:    *)
(* its name, its arguments and its outcome; "idle" between two calls.      *)

D == [palette |-> palette, linearPalette |-> linearPalette, Matrix |-> Matrix,
      Mapper |-> Mapper, Special |-> Special, Serpentine |-> Serpentine,
      SingleThreaded |-> SingleThreaded]

Idle == [op |-> "idle"]

\* NewDitherer(p) has returned the Ditherer
Init ==
    \E p \in UserPalettes :
        /\ palette = copyPalette(p)
        /\ linearPalette = LinearOf(copyPalette(p))
        /\ Matrix = NilMatrix
        /\ Mapper = Nil
        /\ Special = 0
        /\ Serpentine = FALSE
        /\ SingleThreaded = FALSE
        /\ call = [op |-> "NewDitherer", fault |-> "none", pal |-> p, alias |-> FALSE, mutated |-> FALSE]

SetMatrix ==
    /\ call = Idle
    /\ \E m \in Matrices \cup {NilMatrix} : Matrix' = m /\ m # Matrix
    /\ UNCHANGED <<palette, linearPalette, Mapper, Special, Serpentine, SingleThreaded, call>>

SetMapper ==
    /\ call = Idle
    /\ \E f \in Mappers \cup {Nil} : Mapper' = f /\ f # Mapper
    /\ UNCHANGED <<palette, linearPalette, Matrix, Special, Serpentine, SingleThreaded, call>>

SetSpecial ==
    /\ call = Idle
    /\ Special' = 1 - Special
    /\ UNCHANGED <<palette, linearPalette, Matrix, Mapper, Serpentine, SingleThreaded, call>>

SetSerpentine ==
    /\ call = Idle
    /\ Serpentine' = ~Serpentine
    /\ UNCHANGED <<palette, linearPalette, Matrix, Mapper, Special, SingleThreaded, call>>

SetSingleThreaded ==
    /\ call = Idle
    /\ SingleThreaded' = ~SingleThreaded
    /\ UNCHANGED <<palette, linearPalette, Matrix, Mapper, Special, Serpentine, call>>

\* The calls below return in one step.  The outcome of a call with a mapper
\* that draws from the shared source depends on the order in which the
\* workers run: such a call of Dither is followed worker by worker, from
\* ParallelStart to ParallelJoin.
ImageCall(op, src, res) ==
    [op |-> op, src |-> src, fault |-> res.fault, ret |-> res.ret, after |-> res.after, mutated |-> FALSE]

CallDither ==
    /\ call = Idle
    /\ Mapper \notin StatefulMappers
    /\ \E src \in Sources(palette) : call' = ImageCall("Dither", src, Dither(D, src))
    /\ UNCHANGED <<palette, linearPalette, Matrix, Mapper, Special, Serpentine, SingleThreaded>>

CallDitherCopy ==
    /\ call = Idle
    /\ Mapper \notin StatefulMappers
    /\ \E src \in Sources(palette) : call' = ImageCall("DitherCopy", src, DitherCopy(D, src))
    /\ UNCHANGED <<palette, linearPalette, Matrix, Mapper, Special, Serpentine, SingleThreaded>>

CallDitherPaletted ==
    /\ call = Idle
    /\ Mapper \notin StatefulMappers
    /\ \E src \in Sources(palette) : call' = ImageCall("DitherPaletted", src, DitherPaletted(D, src))
    /\ UNCHANGED <<palette, linearPalette, Matrix, Mapper, Special, Serpentine, SingleThreaded>>

\* the record of a call of Draw: src is the caller's image, dst
DrawCall(dst, args, res) ==
    [op |-> "Draw", src |-> dst, args |-> args, fault |-> res.fault, ret |-> res.ret,
     after |-> res.after, mutated |-> FALSE]

CallDraw ==
    /\ call = Idle
    /\ Mapper \notin StatefulMappers
    /\ \E dst \in DrawDsts(palette), r \in DrawRects, src \in DrawSrcs, sp \in DrawPoints :
          call' = DrawCall(dst, [r |-> r, src |-> src, sp |-> sp], Draw(D, dst, r, src, sp))
    /\ UNCHANGED <<palette, linearPalette, Matrix, Mapper, Special, Serpentine, SingleThreaded>>

\* Dither has reached parallel(workers, img, img, f) with the image img
ParallelCall(src, img, workers) ==
    [op |-> "parallel", src |-> src, target |-> img, workers |-> workers,
     bands |-> Bands(workers, img.rect),
     done |-> [i \in 1..Len(Bands(workers, img.rect)) |-> 0],
     writers |-> [p \in DOMAIN img.pix |-> <<>>],
     pix |-> img.pix, draws |-> 0, joined |-> FALSE, ret |-> NilImage]

ParallelStart ==
    /\ call = Idle
    /\ Mapper # Nil
    /\ ~invalid(D)
    /\ \E src \in ParSources, w \in WorkerCounts(D) :
          call' = ParallelCall(src, DitherTarget(D, src), w)
    /\ UNCHANGED <<palette, linearPalette, Matrix, Mapper, Special, Serpentine, SingleThreaded>>

\* worker i has run one iteration of its loop, at the pixel p; writers lists
\* for each pixel the workers that have called dst.Set on it
WorkerCall(c, i, p, run) ==
    [c EXCEPT !.done[i] = c.done[i] + 1, !.writers[p] = Append(@, i),
              !.pix = run.pix, !.draws = run.draws]

WorkerStep ==
    /\ call.op = "parallel"
    /\ \E i \in 1..Len(call.bands) :
          /\ call.done[i] < BandSize(call.target.rect, call.bands[i])
          /\ call' = WorkerCall(call, i, BandPixel(call.target.rect, call.bands[i], call.done[i]),
                                 WorkerPixel(D, call.target, [pix |-> call.pix, draws |-> call.draws],
                                             BandPixel(call.target.rect, call.bands[i], call.done[i])))
    /\ UNCHANGED <<palette, linearPalette, Matrix, Mapper, Special, Serpentine, SingleThreaded>>

\* The functions below read nothing of the Ditherer: they are called on a
\* Ditherer that has no algorithm yet.
CallSqDiff ==
    /\ call = Idle
    /\ Matrix = NilMatrix
    /\ Mapper = Nil
    /\ \E v1 \in SqValues, v2 \in SqValues :
          call' = [op |-> "sqDiff", v1 |-> v1, v2 |-> v2, out |-> sqDiff(v1, v2)]
    /\ UNCHANGED <<palette, linearPalette, Matrix, Mapper, Special, Serpentine, SingleThreaded>>

CallUnpremultAndLinearize ==
    /\ call = Idle
    /\ Matrix = NilMatrix
    /\ Mapper = Nil
    /\ \E c \in UnpremultColours :
          call' = [op |-> "unpremultAndLinearize", c |-> c, out |-> unpremultAndLinearize(c)]
    /\ UNCHANGED <<palette, linearPalette, Matrix, Mapper, Special, Serpentine, SingleThreaded>>

\* the parts parallel hands out when asked for workers workers on an image of
\* the bounds b
CallBands ==
    /\ call = Idle
    /\ Matrix = NilMatrix
    /\ Mapper = Nil
    /\ \E workers \in 1..(MaxProcs + 1), y0 \in {-1, 0, 1}, h \in 1..(MaxH + 1) :
          call' = [op |-> "Bands", workers |-> workers, b |-> <<0, y0, MaxW, y0 + h>>,
                   bands |-> Bands(workers, <<0, y0, MaxW, y0 + h>>)]
    /\ UNCHANGED <<palette, linearPalette, Matrix, Mapper, Special, Serpentine, SingleThreaded>>

\* wg.Wait() returns once every worker is done, and Dither returns img
ParallelJoin ==
    /\ call.op = "parallel"
    /\ ~call.joined
    /\ \A i \in 1..Len(call.bands) : call.done[i] = BandSize(call.target.rect, call.bands[i])
    /\ call' = [call EXCEPT !.joined = TRUE, !.ret = [call.target EXCEPT !.pix = call.pix]]
    /\ UNCHANGED <<palette, linearPalette, Matrix, Mapper, Special, Serpentine, SingleThreaded>>

PaletteCall(op, res) ==
    [op |-> op, fault |-> res.fault, pal |-> res.pal, alias |-> res.alias, mutated |-> FALSE]

CallQuantize ==
    /\ call = Idle
    /\ \E p \in QuantizeArgs(palette), cap \in {1, 256} :
          cap >= Len(p) /\ call' = PaletteCall("Quantize", Quantize(D, p, cap)) @@ [p |-> p, cap |-> cap]
    /\ UNCHANGED <<palette, linearPalette, Matrix, Mapper, Special, Serpentine, SingleThreaded>>

CallGetPalette ==
    /\ call = Idle
    /\ call' = PaletteCall("GetPalette", GetPalette(D))
    /\ UNCHANGED <<palette, linearPalette, Matrix, Mapper, Special, Serpentine, SingleThreaded>>

CallGetColorModel ==
    /\ call = Idle
    /\ call' = PaletteCall("GetColorModel", GetColorModel(D))
    /\ UNCHANGED <<palette, linearPalette, Matrix, Mapper, Special, Serpentine, SingleThreaded>>

\* the error-diffusion branch of Dither on the image img, for a Ditherer that
\* has the matrix e and no mapper
CallMatrixRun ==
    /\ call = Idle
    /\ Matrix = NilMatrix
    /\ Mapper = Nil
    /\ Special = 0
    /\ \E e \in CallerMatrices, img \in ScanSources \cup PaletteImages(palette) :
          call' = [op |-> "MatrixRun", e |-> e, img |-> img,
                   run |-> MatrixRun([D EXCEPT !.Matrix = e], img)]
    /\ UNCHANGED <<palette, linearPalette, Matrix, Mapper, Special, Serpentine, SingleThreaded>>

\* e.CurrentPixel(), and the offsets e.Offset(xx, 0, curPx) of the top row
CallCurrentPixel ==
    /\ call = Idle
    /\ Matrix = NilMatrix
    /\ Mapper = Nil
    /\ \E e \in CallerMatrices \cup {JarvisJudiceNinke} :
          call' = [op |-> "CurrentPixel", e |-> e, curPx |-> CurrentPixel(e),
                   off |-> [xx \in 1..Len(e.rows[1]) |-> Offset(xx - 1, 0, CurrentPixel(e))]]
    /\ UNCHANGED <<palette, linearPalette, Matrix, Mapper, Special, Serpentine, SingleThreaded>>

CallClosestColor ==
    /\ call = Idle
    /\ \E q \in Queries \cup {linearPalette[i] : i \in 1..Len(linearPalette)} :
          call' = [op |-> "closestColor", q |-> q, idx |-> closestColor(linearPalette, q)]
    /\ UNCHANGED <<palette, linearPalette, Matrix, Mapper, Special, Serpentine, SingleThreaded>>

\* bayerMatrix(xdim, ydim), as the test and Bayer call it; the matrices and
\* mappers are built before a mapper is assigned to d.Mapper
CallBayerMatrix ==
    /\ call = Idle
    /\ Mapper = Nil
    /\ \E xdim \in BayerSides, ydim \in BayerSides :
          call' = [op |-> "bayerMatrix", xdim |-> xdim, ydim |-> ydim, ret |-> bayerMatrix(xdim, ydim)]
    /\ UNCHANGED <<palette, linearPalette, Matrix, Mapper, Special, Serpentine, SingleThreaded>>

\* Bayer(x, y, strength)
CallBayer ==
    /\ call = Idle
    /\ Mapper = Nil
    /\ \E x \in BayerArgs, y \in BayerArgs, strength \in Strengths :
          call' = [op |-> "Bayer", x |-> x, y |-> y, strength |-> strength,
                   mapper |-> Bayer(x, y, strength)]
    /\ UNCHANGED <<palette, linearPalette, Matrix, Mapper, Special, Serpentine, SingleThreaded>>

\* PixelMapperFromMatrix(odm, strength)
CallPixelMapperFromMatrix ==
    /\ call = Idle
    /\ Mapper = Nil
    /\ \E odm \in OrderedMatrices, strength \in Strengths :
          call' = [op |-> "PixelMapperFromMatrix", odm |-> odm, strength |-> strength,
                   mapper |-> PixelMapperFromMatrix(odm, strength)]
    /\ UNCHANGED <<palette, linearPalette, Matrix, Mapper, Special, Serpentine, SingleThreaded>>

\* the caller calls the PixelMapper a constructor has returned
CallPixelMapper ==
    /\ call.op \in {"Bayer", "PixelMapperFromMatrix"}
    /\ call.mapper.fault = "none"
    /\ \E p \in MapperPoints, q \in MapperColours :
          \E o \in MapperOutcomes(call.mapper, p[1], p[2], q) :
              call' = [op |-> "PixelMapper", from |-> call.op, mapper |-> call.mapper,
                       p |-> p, q |-> q, fault |-> o.fault, out |-> o.out]
    /\ UNCHANGED <<palette, linearPalette, Matrix, Mapper, Special, Serpentine, SingleThreaded>>

\* samePalette(p1, p2), as Dither, Draw and the test call it
CallSamePalette ==
    /\ call = Idle
    /\ \E p1 \in ComparedPalettes(palette), p2 \in ComparedPalettes(palette) :
          call' = [op |-> "samePalette", p1 |-> p1, p2 |-> p2, ret |-> samePalette(p1, p2)]
    /\ UNCHANGED <<palette, linearPalette, Matrix, Mapper, Special, Serpentine, SingleThreaded>>

PaletteOps == {"NewDitherer", "Quantize", "GetPalette", "GetColorModel"}

\* the caller overwrites the first colour of a palette it holds: the slice it
\* passed to NewDitherer or a palette a call returned; a palette that shares
\* its array with d.palette changes d.palette too
MutatePalette ==
    /\ call.op \in PaletteOps
    /\ call.fault = "none"
    /\ ~call.mutated
    /\ Len(call.pal) > 0
    /\ call' = [call EXCEPT !.pal[1] = MutColor, !.mutated = TRUE]
    /\ palette' = IF call.alias THEN [palette EXCEPT ![1] = MutColor] ELSE palette
    /\ UNCHANGED <<linearPalette, Matrix, Mapper, Special, Serpentine, SingleThreaded>>

\* the caller overwrites the first colour of the palette of the image that
\* DitherPaletted returned, which is a copy of d.palette
MutateImagePalette ==
    /\ call.op = "DitherPaletted"
    /\ call.fault = "none"
    /\ ~call.mutated
    /\ call' = [call EXCEPT !.ret.pal[1] = MutColor, !.mutated = TRUE]
    /\ UNCHANGED <<palette, linearPalette, Matrix, Mapper, Special, Serpentine, SingleThreaded>>

\* the caller is done with the outcome of the call
Release ==
    /\ call # Idle
    /\ call.op = "parallel" => call.joined
    /\ call' = Idle
    /\ UNCHANGED <<palette, linearPalette, Matrix, Mapper, Special, Serpentine, SingleThreaded>>

Next ==
    \/ SetMatrix
    \/ SetMapper
    \/ SetSpecial
    \/ SetSerpentine
    \/ SetSingleThreaded
    \/ CallDither
    \/ CallDitherCopy
    \/ CallDitherPaletted
    \/ CallDraw
    \/ CallQuantize
    \/ CallGetPalette
    \/ CallGetColorModel
    \/ CallClosestColor
    \/ CallCurrentPixel
    \/ CallSqDiff
    \/ CallUnpremultAndLinearize
    \/ CallBands
    \/ CallMatrixRun
    \/ CallSamePalette
    \/ CallBayerMatrix
    \/ CallBayer
    \/ CallPixelMapperFromMatrix
    \/ CallPixelMapper
    \/ ParallelStart
    \/ WorkerStep
    \/ ParallelJoin
    \/ MutatePalette
    \/ MutateImagePalette
    \/ Release

Spec == Init /\ [][Next]_vars


-----------------------------------------------------------------------------
(* Vocabulary of the properties.                                           *)

\* the 16-bit alpha-premultiplied <<r, g, b, a>> of the pixel of img at p
PixelRGBA(img, p) == ColorRGBA(At(img, p))

RGBOf(c) == <<c[1], c[2], c[3]>>

\* the channels of the palette colour c premultiplied by the 16-bit alpha a
Premultiplied(c, a) == <<MulDiv(c.v[1], a, 65535), MulDiv(c.v[2], a, 65535), MulDiv(c.v[3], a, 65535)>>

Returned == call.op \in {"Dither", "DitherCopy"} /\ call.fault = "none"

\* exactly one of Matrix and Mapper is set and Special is not
ExactlyOne == Special = 0 /\ Cardinality({s \in {"Matrix", "Mapper"} :
                                             \/ s = "Matrix" /\ Matrix # NilMatrix
                                             \/ s = "Mapper" /\ Mapper # Nil}) = 1

\* the number of times colour c occurs in palette p
Occurs(p, c) == Cardinality({i \in 1..Len(p) : p[i] = c})

SameColours(p1, p2) ==
    /\ Len(p1) = Len(p2)
    /\ \A i \in 1..Len(p1) : Occurs(p1, p1[i]) = Occurs(p2, p1[i])

SamePixels(i1, i2) ==
    /\ i1.rect = i2.rect
    /\ \A p \in Points(i1.rect) : PixelRGBA(i1, p) = PixelRGBA(i2, p)


\* what a container of the given kind holds of the premultiplied 16-bit
\* channels c with alpha a: RGBA64 holds them, RGBA their high bytes, NRGBA
\* the high bytes of the channels divided by alpha again
Held(kind, c, a) ==
    CASE kind = "RGBA64" -> <<c[1], c[2], c[3], a>>
      [] kind = "RGBA" -> <<c[1] \div 256, c[2] \div 256, c[3] \div 256, a \div 256>>
      [] kind = "NRGBA" ->
           IF a = 65535 THEN <<c[1] \div 256, c[2] \div 256, c[3] \div 256, 255>>
           ELSE IF a = 0 THEN <<0, 0, 0, 0>>
           ELSE <<((c[1] * 255) \div (a \div 257)) \div 256, ((c[2] * 255) \div (a \div 257)) \div 256,
                  ((c[3] * 255) \div (a \div 257)) \div 256, a \div 256>>

-----------------------------------------------------------------------------
(* Properties.                                                             *)

\* C1 (as stated): after Dither or DitherCopy returns, every output pixel
\* whose source alpha is not zero has the 16-bit RGB of some palette colour
\* premultiplied by the source alpha (the palette colour itself when opaque).
C1_PaletteColour ==
    Returned =>
        \A p \in Points(call.ret.rect) :
            LET a == PixelRGBA(call.src, p)[4]
            IN  a # 0 => \E i \in 1..Len(palette) :
                            RGBOf(PixelRGBA(call.ret, p)) = Premultiplied(palette[i], a)

\* C1 (amended): after Dither or DitherCopy returns, every output pixel whose
\* source alpha is not zero holds, at the precision of its container, some
\* palette colour premultiplied by the alpha of the output pixel.
C1_PaletteColourHeld ==
    Returned =>
        \A p \in Points(call.ret.rect) :
            LET a == PixelRGBA(call.src, p)[4]
                oa == PixelRGBA(call.ret, p)[4]
            IN  a # 0 => \E i \in 1..Len(palette) :
                            call.ret.pix[p] = Held(call.ret.kind, Premultiplied(palette[i], oa), oa)

\* a half-transparent pixel of a straight-alpha image has been dithered to a
\* colour that is not black
C1_Witness ==
    /\ Returned
    /\ call.ret.kind = "NRGBA"
    /\ \E p \in Points(call.ret.rect) :
          /\ PixelRGBA(call.src, p)[4] \notin {0, 65535}
          /\ call.ret.pix[p][1] \notin {0, 255}

\* C2: the alpha of every output pixel of Dither and DitherCopy equals the
\* alpha of the source pixel at the same position.
C2_AlphaKept ==
    Returned =>
        \A p \in Points(call.ret.rect) : PixelRGBA(call.ret, p)[4] = PixelRGBA(call.src, p)[4]

\* C3: Dither with a valid configuration on a writable image that is not
\* paletted, or is paletted with the palette of the Ditherer, returns without
\* fault the image it was given, dithered in place.
C3_InPlace ==
    (/\ call.op = "Dither"
     /\ ExactlyOne
     /\ call.src.kind # "ReadOnly"
     /\ call.src.kind = "Paletted" => SameColours(call.src.pal, palette))
    => (/\ call.fault = "none"
        /\ call.ret.kind # "nil"
        /\ call.ret.id = call.src.id
        /\ call.after = call.ret)

\* the call is one that has to return a fresh image
MustCopy ==
    \/ call.op = "DitherCopy"
    \/ /\ call.op = "Dither"
       /\ \/ call.src.kind = "ReadOnly"
          \/ call.src.kind = "Paletted" /\ ~SameColours(call.src.pal, palette)

\* C4: a call that returns a fresh image returns a newly allocated RGBA image
\* with the bounds of src, and leaves every pixel of src as it was.
C4_FreshImage ==
    (MustCopy /\ call.fault = "none") =>
        /\ call.ret.kind = "RGBA"
        /\ call.ret.id # call.src.id
        /\ call.ret.rect = call.src.rect
        /\ call.after = call.src

\* Dither has returned a copy of a paletted image whose palette is not the
\* Ditherer's, and the copy differs from the image
C4_Witness ==
    /\ call.op = "Dither"
    /\ call.fault = "none"
    /\ call.src.kind = "Paletted"
    /\ ~SameColours(call.src.pal, palette)
    /\ ~SamePixels(call.ret, call.src)

\* C5: Dither(x) and DitherCopy(x) end the same way and, when they return,
\* return images that are equal pixel for pixel.
C5_SameAsCopy ==
    call.op = "Dither" =>
        LET other == DitherCopy(D, call.src)
        IN  /\ other.fault = call.fault
            /\ call.fault = "none" => SamePixels(call.ret, other.ret)

\* C6: Dither, DitherCopy and Draw fault on validation exactly when it is not
\* the case that one of Matrix and Mapper is set and Special is not.
C6_Validation ==
    call.op \in {"Dither", "DitherCopy", "Draw"} =>
        (call.fault = "invalid" <=> ~ExactlyOne)

\* Draw has faulted on validation with Matrix, Mapper and Special all set
C6_Witness ==
    /\ call.op = "Draw"
    /\ Matrix # NilMatrix /\ Mapper # Nil /\ Special # 0
    /\ call.fault = "invalid"

\* C7: a call of Dither, DitherCopy, DitherPaletted or Draw that faults leaves
\* the caller's image (src of Dither, dst of Draw) pixel for pixel as it was.
C7_NoPartialResult ==
    (call.op \in {"Dither", "DitherCopy", "DitherPaletted", "Draw"} /\ call.fault # "none")
    => call.after = call.src

\* C8: no step changes the palette of the Ditherer or its linear form.
C8_PaletteFixed == [][palette' = palette /\ linearPalette' = linearPalette]_vars

\* C9: the Ditherer with the palette in any other order returns, for the same
\* configuration and image, an image equal pixel for pixel.
C9_PaletteOrder ==
    (call.op = "Dither" /\ call.fault = "none") =>
        \A f \in Permutations(1..Len(palette)) :
            LET other == Dither([D EXCEPT !.palette = [i \in 1..Len(palette) |-> palette[f[i]]],
                                          !.linearPalette = [i \in 1..Len(palette) |-> linearPalette[f[i]]]],
                                call.src)
            IN  other.fault = "none" /\ SamePixels(call.ret, other.ret)

\* the 0-based indexes of the palette entries at minimal distance from q
Nearest(lp, q) ==
    {i \in 0..(Len(lp) - 1) :
        \A j \in 0..(Len(lp) - 1) : ~Less32(ccDist(q, lp[j + 1]), ccDist(q, lp[i + 1]))}

\* C10: closestColor returns the smallest index among the palette entries at
\* minimal luminance-weighted squared distance from the colour.
C10_FirstNearest ==
    call.op = "closestColor" =>
        /\ call.idx \in Nearest(linearPalette, call.q)
        /\ \A i \in Nearest(linearPalette, call.q) : call.idx <= i

\* closestColor has answered for a colour with two nearest entries, neither
\* of them equal to the colour
C10_Witness ==
    /\ call.op = "closestColor"
    /\ Cardinality(Nearest(linearPalette, call.q)) > 1
    /\ ccDist(call.q, linearPalette[call.idx + 1]) # <<0, 0>>
    /\ call.idx = 0

\* C11: a Dither call with a pixel mapper that has run to its end with
\* SingleThreaded set, or with a mapper that depends on (x, y, r, g, b) only,
\* has produced the pixels of the one sequential run, whatever the number of
\* workers and the order of their steps.
C11_Deterministic ==
    (call.op = "parallel" /\ call.joined /\ (SingleThreaded \/ Mapper \notin StatefulMappers))
    => /\ call.ret.pix = SequentialRun(D, call.target).pix
       /\ Mapper \notin StatefulMappers => call.ret.pix = MapperRun(D, call.target).pix

\* several workers have run a mapper that depends on the position, on an
\* image whose pixels changed
C11_Witness ==
    /\ call.op = "parallel"
    /\ call.joined
    /\ Len(call.bands) > 1
    /\ Mapper = "Checker"
    /\ call.ret.pix # call.target.pix

\* the points of img whose pixel has alpha 0
Transparent(img) == {p \in Points(img.rect) : PixelRGBA(img, p)[4] = 0}

\* C12: the pixel-map driver leaves every pixel of alpha 0 as it is stored,
\* and calls the pixel mapper only for the other pixels (a mapper that draws
\* from the random source has drawn once per pixel that is not transparent).
C12_TransparentKept ==
    /\ (call.op = "parallel" /\ call.joined) =>
          /\ \A p \in Transparent(call.target) : call.ret.pix[p] = call.target.pix[p]
          /\ Mapper \in StatefulMappers =>
                call.draws = Cardinality(Points(call.target.rect) \ Transparent(call.target))
    /\ (call.op = "Dither" /\ Mapper # Nil /\ call.fault = "none" /\ call.ret.id = call.src.id) =>
          \A p \in Transparent(call.src) : call.ret.pix[p] = call.src.pix[p]

\* a run with the drawing mapper has ended on a straight-alpha image that
\* has a transparent pixel with a colour and a pixel that was changed
C12_Witness ==
    /\ call.op = "parallel"
    /\ call.joined
    /\ Mapper = "Noise"
    /\ call.target.kind = "NRGBA"
    /\ \E p \in Transparent(call.target) : call.ret.pix[p][1] # 0
    /\ call.ret.pix # call.target.pix

\* what is stored at p when the pixel of img at p is quantized on its own
OwnQuantization(d, img, p) ==
    SetConv(img, premult(d.palette[closestColor(d.linearPalette,
                                                SubSeq(unpremultAndLinearize(At(img, p)), 1, 3)) + 1],
                         At(img, p)))

\* the points of img whose pixel is the only one that is not transparent
LoneVisible(img) ==
    {p \in Points(img.rect) \ Transparent(img) :
        /\ Transparent(img) # {}
        /\ Points(img.rect) \ Transparent(img) = {p}}

\* C13: in the error-diffusion driver a pixel of alpha 0 has no influence on
\* the other pixels: a pixel that has only transparent pixels around it
\* receives no error and is stored as the palette colour nearest to its own
\* colour.
C13_NoInfluence ==
    (call.op = "Dither" /\ Mapper = Nil /\ call.fault = "none" /\ call.ret.id = call.src.id) =>
        \A p \in LoneVisible(call.src) : call.ret.pix[p] = OwnQuantization(D, call.src, p)

\* the values held by the cells of a matrix of rows
Cells(m) == {m[y][x] : y \in 1..Len(m), x \in 1..(IF Len(m) = 0 THEN 0 ELSE Len(m[1]))}

\* the square Bayer matrix of side n by its recursive construction: each
\* cell of the 2 x 2 matrix is refined by four times the matrix of half the side
RECURSIVE RefBayer(_, _, _)
RefBayer(n, x, y) ==
    IF n = 1 THEN 0
    ELSE 4 * RefBayer(n \div 2, x % (n \div 2), y % (n \div 2))
         + <<<<0, 3>>, <<2, 1>>>>[(y \div (n \div 2)) + 1][(x \div (n \div 2)) + 1]

\* C14: for power-of-two sides bayerMatrix(x, y) has y rows of x cells that
\* hold each value of 0..x*y-1 once, equals the recursively built Bayer
\* matrix when x = y, and equals the four reference matrices of the test.
C14_BayerMatrix ==
    call.op = "bayerMatrix" =>
        /\ Len(call.ret) = call.ydim
        /\ \A y \in 1..call.ydim : Len(call.ret[y]) = call.xdim
        /\ Cells(call.ret) = 0..(call.xdim * call.ydim - 1)
        /\ call.xdim = call.ydim =>
              \A y \in 1..call.ydim, x \in 1..call.xdim :
                  call.ret[y][x] = RefBayer(call.xdim, x - 1, y - 1)
        /\ (call.xdim = 2 /\ call.ydim = 2) => call.ret = <<<<0, 3>>, <<2, 1>>>>
        /\ (call.xdim = 4 /\ call.ydim = 4) =>
              call.ret = <<<<0, 12, 3, 15>>, <<8, 4, 11, 7>>, <<2, 14, 1, 13>>, <<10, 6, 9, 5>>>>
        /\ (call.xdim = 4 /\ call.ydim = 2) => call.ret = <<<<0, 4, 2, 6>>, <<3, 7, 1, 5>>>>
        /\ (call.xdim = 2 /\ call.ydim = 4) => call.ret = <<<<0, 3>>, <<4, 7>>, <<2, 1>>, <<6, 5>>>>

\* a matrix that is not square and whose sides are not a multiple of each
\* other's logarithm has been built
C14_Witness ==
    /\ call.op = "bayerMatrix"
    /\ call.xdim = 8
    /\ call.ydim = 4
    /\ Len(call.ret) = 4

\* C15: every cell of the threshold matrix of a mapper that Bayer has
\* returned lies in 0..x*y-1.
C15_CellsInRange ==
    (call.op = "Bayer" /\ call.mapper.fault = "none") =>
        Cells(call.mapper.matrix) \subseteq 0..(call.x * call.y - 1)

\* C16: a mapper made from a matrix whose Max is 0 has not returned a colour:
\* PixelMapperFromMatrix or the call of the mapper has ended in a panic.
C16_MaxZeroFaults ==
    (call.op = "PixelMapper" /\ call.from = "PixelMapperFromMatrix" /\ call.mapper.max = 0) =>
        call.fault # "none"

\* how many entries of the palette p hold the colour of c
Multiplicity(p, c) == Cardinality({i \in 1..Len(p) : sameColor(p[i], c)})

\* p1 and p2 hold the same colours, each as many times
SameMultiset(p1, p2) ==
    /\ Len(p1) = Len(p2)
    /\ \A i \in 1..Len(p1) : Multiplicity(p1, p1[i]) = Multiplicity(p2, p1[i])

\* C17: samePalette(p1, p2) is true exactly when the two palettes hold the
\* same colours with the same multiplicities, in any order.
C17_MultisetEquality ==
    call.op = "samePalette" => (call.ret <=> SameMultiset(call.p1, call.p2))

\* C18: Quantize(p, m) panics exactly when cap(p) is below the number of
\* colours of the Ditherer or p holds a colour the Ditherer's palette does not
\* have; otherwise it returns the Ditherer's palette.
C18_QuantizeFaults ==
    (call.op = "Quantize" /\ ~call.mutated) =>
        /\ call.fault # "none" <=>
              \/ call.cap < Len(palette)
              \/ \E i \in 1..Len(call.p) : \A j \in 1..Len(palette) : ~sameColor(call.p[i], palette[j])
        /\ call.fault = "none" => call.pal = palette

\* every pixel of img has the full alpha
Opaque(img) == \A p \in Points(img.rect) : PixelRGBA(img, p)[4] = 65535

\* C19: for a palette of at most 256 colours and an opaque source,
\* DitherPaletted returns an image that has at every pixel the colour
\* DitherCopy returns at that pixel.
C19_PalettedSameAsCopy ==
    (/\ call.op = "DitherPaletted"
     /\ call.fault = "none"
     /\ ~call.mutated
     /\ Len(palette) <= MaxPaletted
     /\ Opaque(call.src)) =>
        SamePixels(call.ret, DitherCopy(D, call.src).ret)

\* the rectangle of a call of Draw after clip
ClippedRect == clip(call.src, call.args.r, call.args.src, call.args.sp)[1]

\* C20: Draw leaves every pixel of dst outside the clipped rectangle with the
\* colour it had, whatever the type of dst, and leaves dst as it was when the
\* clipped rectangle is empty.
C20_Frame ==
    (call.op = "Draw" /\ ~call.mutated) =>
        /\ \A p \in Points(call.src.rect) :
              ~In(p, ClippedRect) => PixelRGBA(call.after, p) = PixelRGBA(call.src, p)
        /\ Empty(ClippedRect) => call.after = call.src

\* the greatest index, from 0, of a zero in the row
RightmostZero(row) ==
    CHOOSE i \in 0..(Len(row) - 1) :
        row[i + 1] = 0 /\ \A j \in (i + 1)..(Len(row) - 1) : row[j + 1] # 0

\* C21: for a matrix whose top row holds a zero, CurrentPixel returns the
\* index of the right-most zero of the top row, and Offset measures the
\* columns from that index.
C21_RightmostZero ==
    (call.op = "CurrentPixel" /\ \E i \in 1..Len(call.e.rows[1]) : call.e.rows[1][i] = 0) =>
        /\ call.curPx = RightmostZero(call.e.rows[1])
        /\ \A xx \in 1..Len(call.e.rows[1]) :
              call.off[xx] = <<xx - 1 - RightmostZero(call.e.rows[1]), 0>>

\* C22: the working buffer of the error-diffusion branch has one cell for
\* each pixel of the bounds of the image, wherever the bounds start, every
\* pixel of the bounds has its cell in the buffer, and the run ends without an
\* index out of range.
C22_BufferInRange ==
    call.op = "MatrixRun" =>
        /\ Cardinality(LinsDomain(call.img.rect)) = Cardinality(Points(call.img.rect))
        /\ \A p \in Points(call.img.rect) : <<p[2], p[1]>> \in LinsDomain(call.img.rect)
        /\ call.run.fault = "none"

\* the pixel that step k of a scan of the bounds b works on: rows from top to
\* bottom, columns from left to right, from right to left where reversed(y)
ScanStep(b, k, reversed(_)) ==
    LET y == b[2] + (k \div Dx(b))
        i == k % Dx(b)
    IN  <<IF reversed(y) THEN b[3] - 1 - i ELSE b[1] + i, y>>

\* the rows that a scan traverses from right to left
ReversedRow(y) == Serpentine /\ y % 2 = 0

\* the pixels of the bounds b at the offsets of the weights of the matrix e
\* from the pixel p, the columns counted from curPx and negated when mirrored
Targets(e, b, p, curPx, mirrored) ==
    {q \in Points(b) :
        \E yy \in 1..Len(e.rows) : \E xx \in 1..Len(e.rows[yy]) :
            /\ e.rows[yy][xx] # 0
            /\ q = <<p[1] + (IF mirrored THEN -1 ELSE 1) * (xx - 1 - curPx), p[2] + yy - 1>>}

\* C23: the error-diffusion branch quantizes every pixel of the image once,
\* rows from top to bottom and columns from left to right; with Serpentine
\* the rows of even y go from right to left, step i on column xMax - 1 - i,
\* with the column offsets of the diffusion negated.
C23_ScanOrder ==
    call.op = "MatrixRun" =>
        /\ Len(call.run.trace) = Cardinality(Points(call.img.rect))
        /\ \A k \in 1..Len(call.run.trace) :
              /\ call.run.trace[k].p = ScanStep(call.img.rect, k - 1, ReversedRow)
              /\ call.run.trace[k].touched =
                    Targets(call.e, call.img.rect, call.run.trace[k].p, CurrentPixel(call.e),
                            ReversedRow(call.run.trace[k].p[2]))

\* the pixels quantized in the first k steps of the scan
Quantized(trace, k) == {trace[j].p : j \in 1..k}

\* C24: for every matrix and both scan directions, the cells of the buffer
\* that the diffusion of the error of a pixel modifies belong to pixels of
\* the bounds that are not yet quantized, and no pixel is quantized again.
C24_DiffusionAhead ==
    call.op = "MatrixRun" =>
        \A k \in 1..Len(call.run.trace) :
            /\ call.run.trace[k].touched \subseteq Points(call.img.rect)
            /\ call.run.trace[k].touched \cap Quantized(call.run.trace, k) = {}
            /\ call.run.trace[k].p \notin Quantized(call.run.trace, k - 1)

\* a run under Serpentine has diffused an error along a row of even y and
\* along a row of odd y
C24_Witness ==
    /\ call.op = "MatrixRun"
    /\ call.run.fault = "none"
    /\ Serpentine
    /\ \E k \in 1..Len(call.run.trace) :
          /\ call.run.trace[k].p[2] % 2 = 0
          /\ \E q \in call.run.trace[k].touched : q[2] = call.run.trace[k].p[2]
    /\ \E k \in 1..Len(call.run.trace) :
          /\ call.run.trace[k].p[2] % 2 = 1
          /\ \E q \in call.run.trace[k].touched : q[2] = call.run.trace[k].p[2]

\* the parts are n contiguous, non-empty bands of rows that cover the rows of
\* the bounds b, each but the last of Dy(b) \div n rows
Banded(bands, b, n) ==
    /\ Len(bands) = n
    /\ bands[1][1] = b[2]
    /\ bands[n][2] = b[4]
    /\ \A i \in 1..n : bands[i][1] < bands[i][2]
    /\ \A i \in 1..(n - 1) :
          bands[i][2] = bands[i + 1][1] /\ bands[i][2] - bands[i][1] = Dy(b) \div n

\* C25: parallel, asked for W >= 1 workers on an image of H >= 1 rows, runs
\* min(W, H) workers over contiguous, disjoint bands that cover the rows, the
\* last band with the remainder; a pixel is written by the worker of its
\* band only, at most once, and once when parallel has returned.
C25_Bands ==
    /\ call.op = "Bands" => Banded(call.bands, call.b, Min2(call.workers, Dy(call.b)))
    /\ call.op = "parallel" =>
          /\ Banded(call.bands, call.target.rect, Min2(call.workers, Dy(call.target.rect)))
          /\ \A p \in Points(call.target.rect) :
                /\ Len(call.writers[p]) <= 1
                /\ \A k \in 1..Len(call.writers[p]) :
                      /\ call.bands[call.writers[p][k]][1] <= p[2]
                      /\ p[2] < call.bands[call.writers[p][k]][2]
                /\ call.joined => Len(call.writers[p]) = 1

\* parallel has returned after two workers have each written their band
C25_Witness ==
    /\ call.op = "parallel"
    /\ call.joined
    /\ Len(call.bands) = 2
    /\ \E p \in Points(call.target.rect) : call.writers[p] = <<2>>

\* the top row of the matrix e holds a zero
HasCurrentPixel(e) == \E i \in 1..Len(e.rows[1]) : e.rows[1][i] = 0

\* C26: with a matrix whose top row holds no zero the error-diffusion branch
\* panics; it runs to its end only with a matrix whose top row holds a zero.
C26_NoZeroPanics ==
    call.op = "MatrixRun" => (call.run.fault = "none" => HasCurrentPixel(call.e))

\* C27: unpremultAndLinearize returns zero for the three colour channels of
\* every colour whose alpha is 0, premultiplied or not.
C27_TransparentZero ==
    (call.op = "unpremultAndLinearize" /\ call.out[4] = 0) =>
        SubSeq(call.out, 1, 3) = <<0, 0, 0>>

\* floor(k^2 / 4) for 0 <= k < 2^16
QuarterSquare(k) == (k \div 2) * (k \div 2) + (k \div 2) * (k % 2)

\* C28: sqDiff(a, b) is floor((a - b)^2 / 4) for 16-bit a and b in either
\* order, and the weighted sum of closestColor fits in 32 bits and is below
\* the initial best value 2^32 - 1, for the first entry of the palette as for
\* every other.
C28_Distance ==
    /\ call.op = "sqDiff" =>
          call.out = QuarterSquare(IF call.v1 < call.v2 THEN call.v2 - call.v1 ELSE call.v1 - call.v2)
    /\ call.op = "closestColor" =>
          \A i \in 1..Len(linearPalette) :
              /\ ccSum(call.q, linearPalette[i]) \div 65536 < 65536
              /\ Less32(ccDist(call.q, linearPalette[i]), MaxUint32)

\* sqDiff has been asked for a smaller value minus a greater one, at the
\* greatest distance
C28_Witness ==
    /\ call.op = "sqDiff"
    /\ call.v1 = 0
    /\ call.v2 = 65535
    /\ call.out = 1073709056

\* every pixel of img has the colour of an entry of the palette
OfPalette(img) ==
    \A p \in Points(img.rect) : \E i \in 1..Len(palette) : PixelRGBA(img, p) = palette[i].v

\* C29: when the query is the linear colour of a palette entry, closestColor
\* returns an index whose linear colour is the query; the error-diffusion
\* branch leaves an opaque image made of palette colours as it is.
C29_ExactMatch ==
    /\ (call.op = "closestColor" /\ \E i \in 1..Len(linearPalette) : linearPalette[i] = call.q) =>
          linearPalette[call.idx + 1] = call.q
    /\ (call.op = "MatrixRun" /\ call.run.fault = "none" /\ Opaque(call.img) /\ OfPalette(call.img)) =>
          \A p \in Points(call.img.rect) : call.run.pix[p] = call.img.pix[p]

\* C30: a mapper returned by Bayer or PixelMapperFromMatrix reads its matrix
\* of offsets inside its range at every pixel (x, y), negative coordinates
\* included: the call returns, with the result of the cell (x mod W, y mod H).
C30_CellInRange ==
    (call.op = "PixelMapper" /\ call.mapper.xdim > 0 /\ call.mapper.ydim > 0) =>
        /\ call.fault = "none"
        /\ [fault |-> "none", out |-> call.out] \in
              MapperResults(call.q,
                            call.mapper.precalc[(call.p[2] % call.mapper.ydim) + 1]
                                               [(call.p[1] % call.mapper.xdim) + 1])

====
